---- MODULE Spec2Model ----
(***************************************************************************)
(* Verification model of the lending bot's core:                           *)
(*   - OptimalAllocationStrategy.generate_offers (allocation planner),     *)
(*   - DualWriteManager (legacy/new store coordinator),                    *)
(*   - DailySettlementService + DailyEarningsRepository (daily settlement),*)
(*   - FundingBot.run and SimpleLendingBot.run_cycle (allocation cycle),   *)
(*   - the ladder, adaptive-ladder, spread-filler and market-taker         *)
(*     strategies,                                                         *)
(*   - OrderManager (order status synchronisation, interest payments),     *)
(*   - SimpleLendingBot.ladder_strategy with its rounding to the cent.     *)
(* Each subsystem has its own specification over the shared variables; a   *)
(* specification leaves the variables of the other subsystems unchanged.   *)
(***************************************************************************)
EXTENDS Integers, Naturals, Sequences, FiniteSets, TLC

VARIABLES
    \* --- allocation planner -------------------------------------------
    available_balance,  \* argument of generate_offers (amount grid units)
    market_data,        \* argument of generate_offers (market snapshot)
    offers,             \* list returned by generate_offers
    path,               \* which return statement of generate_offers was taken
    analysis,           \* what the last _analyze_market_opportunities call did
    alloc,              \* the loop of _calculate_optimal_allocation
    \* --- dual-write coordinator ---------------------------------------
    enable_new_system_write,
    enable_new_system_read,
    enable_comparison,
    stats,              \* the five process-lifetime counters
    dw_ret,             \* what the last coordinator call did and returned
    write_calls,        \* how many write_order_data calls have returned
    \* --- daily settlement ---------------------------------------------
    daily_earnings,     \* rows of table daily_earnings
    pc,                 \* per asyncio task: where its coroutine is suspended
    statusWrites,       \* <<old, new>> of each status change of the last step
    st_ret,             \* what the last settlement step returned, if anything
    earnings_call,      \* a direct _calculate_daily_earnings call: input, result
    \* --- allocation cycle ---------------------------------------------
    bot,                \* the program running: FundingBot or SimpleLendingBot
    loop_pc,            \* where its scheduling loop stands
    cycle_balance,      \* the available balance read in the current cycle
    cycle_log,          \* the steps of the current cycle, in order
    offers_to_place,    \* the offers the strategy generated in this cycle
    results,            \* per offer handled so far: what became of it
    \* --- ladder, adaptive-ladder, spread-filler, market-taker ----------
    strategy,           \* the strategy class in use
    cfg_min_order_amount, \* config.trading.min_order_amount
    num_ladders,        \* self.num_ladders of the two ladder strategies
    strat_offers,       \* the list the last generate_offers call returned
    strat_call,         \* the arguments and outcome of that call
    \* --- order manager ------------------------------------------------
    lending_orders,     \* table lending_orders: order id -> status
    interest_payments,  \* ledger ids of the rows of table interest_payments
    order_call,         \* what the last OrderManager call was and did
    \* --- SimpleLendingBot.ladder_strategy, to the cent ------------------
    ladder_call         \* the balance of the last call and the orders returned

plannerVars == <<available_balance, market_data, offers, path, analysis,
                 alloc>>
dualVars == <<enable_new_system_write, enable_new_system_read,
              enable_comparison, stats, dw_ret, write_calls>>
settleVars == <<daily_earnings, pc, statusWrites, st_ret, earnings_call>>
cycleVars == <<bot, loop_pc, cycle_balance, cycle_log, offers_to_place,
               results>>
stratVars == <<strategy, cfg_min_order_amount, num_ladders, strat_offers,
               strat_call>>
orderVars == <<lending_orders, interest_payments, order_call>>
ladderVars == <<ladder_call>>
vars == <<plannerVars, dualVars, settleVars, cycleVars, stratVars, orderVars,
          ladderVars>>

----------------------------------------------------------------------------
(* Generic helpers *)

MinOf(a, b) == IF a <= b THEN a ELSE b

MaxOf(a, b) == IF a >= b THEN a ELSE b

\* Binary floating point, scaled down: a float carries FracBits binary digits
\* after the point, so it is a whole number of quanta of 2^-FracBits.  Whole
\* amounts convert exactly; a quotient is rounded to the nearest quantum, ties
\* to even, so that dividing by a power of two is exact and dividing by 3 or 5
\* is not, as in IEEE arithmetic.
FracBits == 2

Quanta == 2 ^ FracBits

\* float(x) of a whole amount x
ToFloat(x) == x * Quanta

\* Python float division a / n of the float a (in quanta) by the integer n
FloatDiv(a, n) ==
    LET q == a \div n
        r == a % n
    IN  IF 2 * r > n THEN q + 1
        ELSE IF 2 * r < n THEN q
        ELSE IF q % 2 = 0 THEN q ELSE q + 1

RECURSIVE SumAmounts(_)
SumAmounts(os) ==
    IF os = <<>> THEN 0 ELSE Head(os).amount + SumAmounts(Tail(os))

----------------------------------------------------------------------------
(* Allocation planner: OptimalAllocationStrategy *)

min_order_amount == 100

\* min_order_amount in quanta
MinQuanta == min_order_amount * Quanta

MaxBalance == 520
MaxBids == 2

Balances == 0..MaxBalance

\* Rates are in thousandths (0.085 -> 85).  A snapshot may lack the key
\* 'avg_rate'; market_data.get('avg_rate', 0.08) then yields the default.
BidEntries ==
    { [rate |-> 0, amount |-> 5000], [rate |-> 85, amount |-> 5000],
      [rate |-> 500, amount |-> 5000], [rate |-> 85, amount |-> 0] }
BidLists == UNION {[1..n -> BidEntries] : n \in 0..MaxBids}
Markets ==
    { m \in [bids : BidLists, has_avg_rate : BOOLEAN, avg_rate : {0, 80}] :
        ~m.has_avg_rate => m.avg_rate = 0 }

DefaultAvgRate == 80

AvgRateOf(md) ==
    IF md.has_avg_rate THEN md.avg_rate ELSE DefaultAvgRate

\* The bids that pass the filter `rate > 0 and volume > 0` among the first 20.
ValidBids(md) ==
    SelectSeq(SubSeq(md.bids, 1, MinOf(20, Len(md.bids))),
              LAMBDA b : b.rate > 0 /\ b.amount > 0)

\* _estimate_fill_probability for the first valid bid.  avg_rate = 0 makes the
\* Decimal division raise; otherwise either `rate_factor * 0.5` (Decimal
\* rate_factor times float) raises, or the float 0.1 survives and a float
\* probability is returned.
EstimateFillProbability(rate, md) ==
    LET avg == AvgRateOf(md)
        absdiff == IF rate >= avg THEN rate - avg ELSE avg - rate
    IN  IF avg = 0 THEN "DivisionByZero"
        \* 1 - 2*|rate-avg|/avg > 0.1  <=>  20*|rate-avg| < 9*avg
        ELSE IF 20 * absdiff < 9 * avg
             THEN "TypeError"
             ELSE "float"

\* _analyze_market_opportunities: the exception it ends with.  A valid bid
\* reaches `rate * fill_probability` (Decimal times float), an empty result
\* reaches `opportunities[0]` in the debug message.
AnalyzeMarketOpportunities(md) ==
    LET valid == ValidBids(md)
    IN  IF valid = <<>>
        THEN [raised |-> "IndexError", opportunities |-> <<>>]
        ELSE LET p == EstimateFillProbability(valid[1].rate, md)
             IN  IF p = "DivisionByZero"
                 THEN [raised |-> "DivisionByZero", opportunities |-> <<>>]
                 ELSE [raised |-> "TypeError", opportunities |-> <<>>]

\* the float _estimate_fill_probability returns when rate_factor is the
\* float 0.1, in thousandths: 0.1 * 0.5 + volume_factor * 0.3 + 0.8 * 0.2,
\* limited to [0.1, 0.95], with volume_factor = min(1.0, volume / 5000)
FillProbabilityFloat(volume) ==
    LET volume_factor == MinOf(1000, (volume * 1000) \div 5000)
        probability == 50 + (volume_factor * 300) \div 1000 + 160
    IN  MaxOf(100, MinOf(950, probability))

\* _estimate_fill_probability(rate, volume, market_data): the exception it
\* raises, or the probability it returns (thousandths)
EstimateFillProbabilityResult(rate, volume, md) ==
    LET outcome == EstimateFillProbability(rate, md)
    IN  IF outcome = "float"
        THEN [raised |-> "none",
              fill_probability |-> FillProbabilityFloat(volume)]
        ELSE [raised |-> outcome, fill_probability |-> 0]

NoAnalysis ==
    [called |-> FALSE, raised |-> "none", opportunities |-> <<>>,
     entries |-> 0, valid |-> 0, avg_rate |-> 0,
     estimate |-> [raised |-> "none", fill_probability |-> 0]]

\* what a call of _analyze_market_opportunities(md) does: how it ends, and
\* the estimate made for the first entry that passes the filter (no later
\* entry is reached)
AnalysisOf(md) ==
    LET a == AnalyzeMarketOpportunities(md)
        valid == ValidBids(md)
    IN  [called |-> TRUE,
         raised |-> a.raised,
         opportunities |-> a.opportunities,
         entries |-> Len(md.bids),
         valid |-> Len(valid),
         avg_rate |-> AvgRateOf(md),
         estimate |->
            IF valid = <<>>
            THEN [raised |-> "none", fill_probability |-> 0]
            ELSE EstimateFillProbabilityResult(valid[1].rate,
                                               valid[1].amount, md)]

\* Decimal division: the exact quotient rounded half-even to the context
\* precision, kept here on the amount grid.
DecDiv(a, n) == FloatDiv(a, n)

Clamp(x, lo, hi) == MaxOf(lo, MinOf(hi, x))

\* _get_optimal_period (rate in thousandths)
GetOptimalPeriod(rate) ==
    IF rate >= 100 THEN 2 ELSE IF rate >= 80 THEN 7 ELSE 30

\* amount * multiplier / 1000000 rounded half-even to the amount grid, the
\* product taken in two halves so that no intermediate value leaves 32 bits
ScaleByMillionths(amount, multiplier) ==
    LET mh == multiplier \div 1000
        ml == multiplier % 1000
        b == amount * ml
        n == (amount * mh) + (b \div 1000)
        q == n \div 1000
        r == ((n % 1000) * 1000) + (b % 1000)
    IN  IF r > 500000 THEN q + 1
        ELSE IF r < 500000 THEN q
        ELSE IF q % 2 = 0 THEN q ELSE q + 1

\* max_single_order_ratio, in hundredths
max_single_order_ratio == 15

\* the cap of _calculate_optimal_order_size applied after the floor
OrderSizeCapLast(adjusted_amount, max_single_amount) ==
    MinOf(MaxOf(MinQuanta, adjusted_amount), max_single_amount)

\* min(adjusted, cap), then max(min_order_amount, .)
OrderSizeFloorLast(adjusted_amount, max_single_amount) ==
    MaxOf(MinQuanta, MinOf(adjusted_amount, max_single_amount))

\* _calculate_optimal_order_size.  index counts from 0; expected_return is in
\* millionths, risk_score and the two multipliers in thousandths.
CalculateOptimalOrderSize(remaining_balance, opportunity, index, total_opportunities) ==
    LET base_allocation == DecDiv(remaining_balance, total_opportunities - index)
        quality_multiplier ==
            Clamp(DecDiv(opportunity.expected_return, 80), 500, 2000)
        risk_multiplier == 1000 - DecDiv(opportunity.risk_score, 2)
        adjusted_amount ==
            ScaleByMillionths(base_allocation,
                              quality_multiplier * risk_multiplier)
        max_single_amount ==
            DecDiv(remaining_balance * max_single_order_ratio, 100)
    IN  OrderSizeFloorLast(adjusted_amount, max_single_amount)

\* opportunity['expected_return'] / 0.08 raises TypeError when the expected
\* return is a Decimal
SizingRaises(opportunity) == opportunity.er_type = "Decimal"

\* optimal_amount * opp['expected_return'] / 365 raises TypeError when the
\* expected return is a float
AppendRaises(opportunity) == opportunity.er_type = "float"

\* the loop of _calculate_optimal_allocation from index i (0-based) on;
\* amounts are in quanta
RECURSIVE AllocateFrom(_, _, _, _)
AllocateFrom(opps, i, remaining_balance, allocations) ==
    IF i >= Len(opps) \/ remaining_balance < MinQuanta
    THEN [raised |-> "none", allocations |-> allocations]
    ELSE IF SizingRaises(opps[i + 1])
    THEN [raised |-> "TypeError", allocations |-> allocations]
    ELSE LET optimal_amount ==
                 CalculateOptimalOrderSize(remaining_balance, opps[i + 1], i,
                                           Len(opps))
         IN  IF optimal_amount >= MinQuanta
             THEN IF AppendRaises(opps[i + 1])
                  THEN [raised |-> "TypeError", allocations |-> allocations]
                  ELSE AllocateFrom(opps, i + 1,
                          remaining_balance - optimal_amount,
                          Append(allocations,
                             [rate |-> opps[i + 1].rate,
                              amount |-> optimal_amount,
                              fill_probability |-> opps[i + 1].fill_probability]))
             ELSE AllocateFrom(opps, i + 1, remaining_balance, allocations)

\* _calculate_optimal_allocation: target 96% of the balance, best 10
CalculateOptimalAllocation(total_balance, opportunities) ==
    AllocateFrom(SubSeq(opportunities, 1, MinOf(10, Len(opportunities))), 0,
                 DecDiv(ToFloat(total_balance) * 96, 100), <<>>)

\* opportunities as _calculate_optimal_allocation takes them: rate in
\* thousandths, expected_return in millionths, risk_score and
\* fill_probability in thousandths; er_type is the Python type of
\* expected_return
OpportunitySamples ==
    {[rate |-> 85, expected_return |-> 43350, risk_score |-> 490,
      fill_probability |-> 510, er_type |-> "float"],
     [rate |-> 500, expected_return |-> 180000, risk_score |-> 640,
      fill_probability |-> 360, er_type |-> "float"],
     [rate |-> 80, expected_return |-> 76000, risk_score |-> 50,
      fill_probability |-> 950, er_type |-> "float"],
     [rate |-> 85, expected_return |-> 43350, risk_score |-> 490,
      fill_probability |-> 510, er_type |-> "Decimal"]}

MaxOpportunities == 2

OpportunityLists ==
    UNION {[1..n -> OpportunitySamples] : n \in 1..MaxOpportunities}

\* total_balance handed to _calculate_optimal_allocation
AllocationBalances == {100, 105, 300, 521, 700, 1000, 5000, 10000}

\* the loop before its first iteration: remaining_balance is the target
\* amount (target_utilization = 0.96)
StartAllocation(total_balance, opportunities) ==
    [started |-> TRUE,
     opportunities |->
        SubSeq(opportunities, 1, MinOf(10, Len(opportunities))),
     index |-> 0,
     remaining_balance |-> DecDiv(ToFloat(total_balance) * 96, 100),
     allocations |-> <<>>, raised |-> "none",
     sized |-> FALSE, remaining_before |-> 0, optimal_amount |-> 0]

NoAllocation ==
    [started |-> FALSE, opportunities |-> <<>>, index |-> 0,
     remaining_balance |-> 0, allocations |-> <<>>, raised |-> "none",
     sized |-> FALSE, remaining_before |-> 0, optimal_amount |-> 0]

\* one iteration of the loop of _calculate_optimal_allocation: the size is
\* computed, then the allocation is appended, either of which may raise
AllocationStep ==
    /\ alloc.started
    /\ alloc.raised = "none"
    /\ alloc.index < Len(alloc.opportunities)
    /\ alloc.remaining_balance >= MinQuanta
    /\ LET opp == alloc.opportunities[alloc.index + 1]
       IN  IF SizingRaises(opp)
           THEN alloc' = [alloc EXCEPT !.raised = "TypeError",
                                       !.sized = FALSE]
           ELSE \E optimal_amount \in
                    {CalculateOptimalOrderSize(alloc.remaining_balance, opp,
                                               alloc.index,
                                               Len(alloc.opportunities))} :
                  alloc' =
                    [alloc EXCEPT
                        !.sized = TRUE,
                        !.remaining_before = alloc.remaining_balance,
                        !.optimal_amount = optimal_amount,
                        !.raised =
                            IF optimal_amount >= MinQuanta
                               /\ AppendRaises(opp)
                            THEN "TypeError" ELSE "none",
                        !.index =
                            IF optimal_amount >= MinQuanta
                               /\ AppendRaises(opp)
                            THEN @ ELSE @ + 1,
                        !.remaining_balance =
                            IF optimal_amount >= MinQuanta
                               /\ ~AppendRaises(opp)
                            THEN @ - optimal_amount ELSE @,
                        !.allocations =
                            IF optimal_amount >= MinQuanta
                               /\ ~AppendRaises(opp)
                            THEN Append(@,
                                    [rate |-> opp.rate,
                                     amount |-> optimal_amount,
                                     fill_probability |->
                                        opp.fill_probability])
                            ELSE @]
    /\ UNCHANGED <<available_balance, market_data, offers, path, analysis,
                   dualVars, settleVars, cycleVars, stratVars, orderVars, ladderVars>>

\* _generate_optimized_orders
GenerateOptimizedOrders(allocation_plan) ==
    [i \in 1..Len(allocation_plan) |->
        [rate |-> allocation_plan[i].rate,
         amount |-> allocation_plan[i].amount,
         period |-> GetOptimalPeriod(allocation_plan[i].rate),
         confidence |-> allocation_plan[i].fill_probability]]

\* list.sort(key=rate, reverse=True): stable insertion into a sorted prefix
RECURSIVE InsertByRate(_, _)
InsertByRate(sorted, o) ==
    IF sorted = <<>> THEN <<o>>
    ELSE IF Head(sorted).rate >= o.rate
         THEN <<Head(sorted)>> \o InsertByRate(Tail(sorted), o)
         ELSE <<o>> \o sorted

RECURSIVE SortByRateDesc(_)
SortByRateDesc(os) ==
    IF os = <<>> THEN <<>>
    ELSE InsertByRate(SortByRateDesc(SubSeq(os, 1, Len(os) - 1)), os[Len(os)])

\* _validate_and_adjust_offers: proportional clawback, drop, sort
ValidateAndAdjustOffers(os, balance) ==
    IF os = <<>> THEN os
    ELSE LET total_amount == SumAmounts(os)
             scaled ==
                 IF total_amount > ToFloat(balance)
                 THEN [i \in 1..Len(os) |->
                         [os[i] EXCEPT
                            !.amount = FloatDiv(os[i].amount * ToFloat(balance),
                                                total_amount)]]
                 ELSE os
             kept == SelectSeq(scaled, LAMBDA o : o.amount >= MinQuanta)
         IN  SortByRateDesc(kept)

\* order_count of the fallback: min(5, int(balance / min_order_amount))
FallbackOrderCountCeil(balance) ==
    MinOf(5, (balance + min_order_amount - 1) \div min_order_amount)

FallbackOrderCount(balance) == MinOf(5, balance \div min_order_amount)

GenerateFallbackOrders(balance, md) ==
    LET order_count == FallbackOrderCount(balance)
    IN  IF order_count = 0 THEN <<>>
        ELSE LET amount_per_order == FloatDiv(ToFloat(balance), order_count)
                 base_rate == AvgRateOf(md)
             IN  [i \in 1..order_count |->
                     [rate |-> base_rate + (i - 1),
                      amount |-> amount_per_order,
                      period |-> 7,
                      confidence |-> 70]]

GenerateOffersResult(balance, md) ==
    IF balance < min_order_amount
    THEN [path |-> "insufficient", offers |-> <<>>]
    ELSE LET a == AnalyzeMarketOpportunities(md)
             plan == CalculateOptimalAllocation(balance, a.opportunities)
         IN  IF a.raised # "none" \/ plan.raised # "none"
             THEN [path |-> "fallback",
                   offers |-> GenerateFallbackOrders(balance, md)]
             ELSE [path |-> "primary",
                   offers |->
                       ValidateAndAdjustOffers(
                           GenerateOptimizedOrders(plan.allocations),
                           balance)]

----------------------------------------------------------------------------
(* Dual-write coordinator: DualWriteManager *)

MaxWrites == 3

\* order_data: its 'type' and its 'trigger_status_update'
OrderData ==
    [type : {"lending_order", "interest_payment", "other"},
     trigger_status_update : BOOLEAN]

\* what legacy_order_repo.create / legacy_interest_repo.create does:
\* returns an id, returns None, or raises
RepoCreateOutcomes == {"id", "none", "raise"}

\* what account_status_v2.save_daily_snapshot does
SnapshotOutcomes == {"true", "false", "raise"}

\* what account_status_v2.get_current_status does: raises, or returns a
\* status with this utilization_rate (percent)
NewStatusOutcomes ==
    {[raises |-> TRUE, utilization_rate |-> 0]} \cup
    {[raises |-> FALSE, utilization_rate |-> u] : u \in {50, 55, 56}}

\* what legacy_order_repo.get_active_orders does: raises, or returns orders
\* whose amounts sum to total_lending
LegacyReadOutcomes ==
    {[raises |-> TRUE, total_lending |-> 0]} \cup
    {[raises |-> FALSE, total_lending |-> t] : t \in {0, 1000, 3000}}

NoStatus == [source |-> "none", utilization_rate |-> 0]

\* _get_default_status
DefaultStatus == [source |-> "default", utilization_rate |-> 0]

\* the record a coordinator call leaves in dw_ret
NoCall ==
    [op |-> "none", value |-> FALSE, raised |-> FALSE, calls |-> <<>>,
     legacy_success |-> FALSE, new_success |-> FALSE, status |-> NoStatus,
     new_rate |-> -1, legacy_rate |-> -1,
     overall_health |-> "none", new_read |-> "none", new_balance |-> 0,
     legacy_read |-> "none", legacy_balance |-> 0]

\* _write_legacy_order / _write_legacy_interest: `id is not None`, False on
\* an exception
WriteLegacyRecord(create) == create = "id"

\* _write_to_legacy_system: dispatch on the type, False for an unknown type
\* and on any exception
WriteToLegacySystem(order_data, create) ==
    IF order_data.type \in {"lending_order", "interest_payment"}
    THEN WriteLegacyRecord(create)
    ELSE FALSE

\* _write_to_new_system: the snapshot's answer when a status update is
\* triggered, True otherwise, False on any exception
WriteToNewSystem(order_data, snapshot) ==
    IF order_data.trigger_status_update THEN snapshot = "true" ELSE TRUE

\* _read_from_legacy_system: the aggregation over the active orders (an idle
\* balance of 1000 is assumed by the code), the default status on an exception
ReadFromLegacySystem(legacy) ==
    IF legacy.raises
    THEN [raised |-> FALSE, status |-> DefaultStatus]
    ELSE [raised |-> FALSE,
          status |->
            [source |-> "legacy_system",
             utilization_rate |->
                IF legacy.total_lending > 0
                THEN (legacy.total_lending * 100)
                        \div (legacy.total_lending + 1000)
                ELSE 0]]

\* get_current_status as seen by the coordinator
ReadFromNewSystem(new) ==
    IF new.raises
    THEN [raised |-> TRUE, status |-> NoStatus]
    ELSE [raised |-> FALSE,
          status |-> [source |-> "new_system",
                      utilization_rate |-> new.utilization_rate]]

AbsDiff(a, b) == IF a >= b THEN a - b ELSE b - a

\* the Python type of new_status['utilization_rate']: get_current_status
\* builds it with Decimal arithmetic on every path
NewUtilizationType == "Decimal"

\* the Python type of legacy_status['utilization_rate']: float(...) when
\* total_lending > 0, the int literal 0 otherwise and in the default status
LegacyUtilizationType(legacy) ==
    IF ~legacy.raises /\ legacy.total_lending > 0 THEN "float" ELSE "int"

\* the subtraction of _perform_simple_consistency_check, line 281: a - b
\* raises TypeError when one operand is a Decimal and the other a float
SubtractRaises(a_type, b_type) == {a_type, b_type} = {"Decimal", "float"}

\* _perform_simple_consistency_check: TRUE when it counts an inconsistency
\* (tolerance 0.05 * 100 percentage points); an exception counts nothing
ConsistencyCheckFlags(new, legacy) ==
    LET n == ReadFromNewSystem(new)
        l == ReadFromLegacySystem(legacy)
    IN  /\ ~n.raised
        /\ ~l.raised
        /\ ~SubtractRaises(NewUtilizationType, LegacyUtilizationType(legacy))
        /\ AbsDiff(n.status.utilization_rate, l.status.utilization_rate) > 5

\* `success` of write_order_data made to depend on either store
OverallSuccessEither(legacy_success, new_success) ==
    legacy_success \/ new_success

\* `success` of write_order_data made to depend on both stores
OverallSuccessBoth(legacy_success, new_success) ==
    legacy_success /\ new_success

\* `success` of write_order_data: starts True, set False only when the legacy
\* write reports failure; the outcome of the new-store write never touches it
OverallSuccess(legacy_success, new_success) == legacy_success

\* the new-store write made to depend on the legacy write's success
NewWriteAttemptedAfterLegacy(legacy_success) ==
    enable_new_system_write /\ legacy_success

\* step 2 of write_order_data: the new-store write is attempted whenever
\* enable_new_system_write is set, whatever the legacy write returned
NewWriteAttempted(legacy_success) == enable_new_system_write

\* the consistency check run without looking at enable_comparison
CheckScheduledAlways(legacy_success) == legacy_success

\* step 3 of write_order_data: the check runs when comparison is enabled and
\* the legacy write succeeded
CheckScheduled(legacy_success) == enable_comparison /\ legacy_success

\* dual_writes made to count the successful calls only
DualWritesAfterOnSuccess(st, legacy_success) ==
    st.dual_writes + (IF legacy_success THEN 1 ELSE 0)

\* self.stats['dual_writes'] += 1 at the end of the try block, reached
\* whatever the two writes returned
DualWritesAfter(st, legacy_success) == st.dual_writes + 1

\* write_order_data: the counters after the call and the value returned
WriteOrderDataResult(order_data, create, snapshot, new, legacy) ==
    LET legacy_success == WriteToLegacySystem(order_data, create)
        new_attempted == NewWriteAttempted(legacy_success)
        new_success == WriteToNewSystem(order_data, snapshot)
        new_failed == new_attempted /\ ~new_success
        checked == CheckScheduled(legacy_success)
        flagged == checked /\ ConsistencyCheckFlags(new, legacy)
    IN  [stats |->
            [dual_writes |-> DualWritesAfter(stats, legacy_success),
             write_errors |-> stats.write_errors,
             comparison_checks |->
                stats.comparison_checks + (IF checked THEN 1 ELSE 0),
             data_inconsistencies |->
                stats.data_inconsistencies + (IF flagged THEN 1 ELSE 0),
             new_system_errors |->
                stats.new_system_errors + (IF new_failed THEN 1 ELSE 0)],
         ret |->
            [NoCall EXCEPT
                !.op = "write_order_data",
                !.value = OverallSuccess(legacy_success, new_success),
                !.calls =
                    <<"legacy">>
                    \o (IF new_attempted THEN <<"new">> ELSE <<>>)
                    \o (IF checked THEN <<"check">> ELSE <<>>),
                !.legacy_success = legacy_success,
                !.new_success = new_attempted /\ new_success,
                !.new_rate =
                    IF new.raises THEN -1 ELSE new.utilization_rate,
                !.legacy_rate =
                    ReadFromLegacySystem(legacy).status.utilization_rate]]

WriteOrderData ==
    /\ stats.dual_writes + stats.write_errors < MaxWrites
    /\ \E order_data \in OrderData, create \in RepoCreateOutcomes,
          snapshot \in SnapshotOutcomes, new \in NewStatusOutcomes,
          legacy \in LegacyReadOutcomes :
            LET r == WriteOrderDataResult(order_data, create, snapshot, new,
                                          legacy)
            IN  /\ stats' = r.stats
                /\ dw_ret' = r.ret
    /\ write_calls' = write_calls + 1
    /\ UNCHANGED <<enable_new_system_write, enable_new_system_read,
                   enable_comparison, plannerVars, settleVars,
                   cycleVars, stratVars, orderVars, ladderVars>>

\* read_account_status without the except clause around the new-system read
ReadAccountStatusNoFallback(new, legacy) ==
    IF enable_new_system_read
    THEN ReadFromNewSystem(new)
    ELSE ReadFromLegacySystem(legacy)

\* read_account_status: the new system when reads are enabled, the legacy
\* aggregation when they are not or when the new system raises
ReadAccountStatusResult(new, legacy) ==
    IF enable_new_system_read
    THEN LET n == ReadFromNewSystem(new)
         IN  IF n.raised
             THEN ReadFromLegacySystem(legacy)
             ELSE n
    ELSE ReadFromLegacySystem(legacy)

ReadAccountStatus ==
    /\ \E new \in NewStatusOutcomes, legacy \in LegacyReadOutcomes :
          LET r == ReadAccountStatusResult(new, legacy)
          IN  dw_ret' =
                [NoCall EXCEPT
                    !.op = "read_account_status",
                    !.raised = r.raised,
                    !.status = r.status,
                    !.calls =
                        IF enable_new_system_read
                        THEN IF new.raises THEN <<"new", "legacy">>
                                           ELSE <<"new">>
                        ELSE <<"legacy">>,
                    !.new_success = ~new.raises,
                    !.legacy_success = ~legacy.raises]
    /\ UNCHANGED <<enable_new_system_write, enable_new_system_read,
                   enable_comparison, stats, write_calls, plannerVars, settleVars,
                   cycleVars, stratVars, orderVars, ladderVars>>

EnableNewSystemReads ==
    /\ enable_new_system_read' = TRUE
    /\ dw_ret' = [NoCall EXCEPT !.op = "enable_new_system_reads"]
    /\ UNCHANGED <<enable_new_system_write, enable_comparison, stats, write_calls,
                   plannerVars, settleVars, cycleVars, stratVars, orderVars, ladderVars>>

DisableNewSystemReads ==
    /\ enable_new_system_read' = FALSE
    /\ dw_ret' = [NoCall EXCEPT !.op = "disable_new_system_reads"]
    /\ UNCHANGED <<enable_new_system_write, enable_comparison, stats, write_calls,
                   plannerVars, settleVars, cycleVars, stratVars, orderVars, ladderVars>>

\* the error-rate test refusing when there has been no dual write
ErrorRateTooHighWithoutData(st) ==
    st.dual_writes = 0 \/ st.new_system_errors * 100 > 5 * st.dual_writes

\* the error-rate test with >= in place of >
ErrorRateTooHighInclusive(st) ==
    st.dual_writes > 0 /\ st.new_system_errors * 100 >= 5 * st.dual_writes

\* get_dual_write_stats()['new_system_error_rate'] > 5, the rate being
\* new_system_errors / dual_writes * 100, or 0 without a dual write
ErrorRateTooHigh(st) ==
    st.dual_writes > 0 /\ st.new_system_errors * 100 > 5 * st.dual_writes

\* data_inconsistencies > consistency_checks * 0.1
InconsistencyRateTooHigh(st) ==
    st.data_inconsistencies * 10 > st.comparison_checks

\* the two refusals of full_cutover_to_new_system
CutoverRefused(st) == ErrorRateTooHigh(st) \/ InconsistencyRateTooHigh(st)

FullCutoverToNewSystem ==
    /\ IF CutoverRefused(stats)
       THEN /\ dw_ret' = [NoCall EXCEPT !.op = "full_cutover_to_new_system",
                                        !.value = FALSE]
            /\ UNCHANGED <<enable_new_system_read, enable_comparison>>
       ELSE /\ enable_new_system_read' = TRUE
            /\ enable_comparison' = FALSE
            /\ dw_ret' = [NoCall EXCEPT !.op = "full_cutover_to_new_system",
                                        !.value = TRUE]
    /\ UNCHANGED <<enable_new_system_write, stats, write_calls, plannerVars, settleVars,
                   cycleVars, stratVars, orderVars, ladderVars>>

\* what account_status_v2.get_current_status gives health_check: it raises,
\* returns an empty status, or returns a status with this total_balance
HealthNewOutcomes ==
    {[kind |-> "raises", total_balance |-> 0],
     [kind |-> "empty", total_balance |-> 0]} \cup
    {[kind |-> "status", total_balance |-> b] : b \in {-1, 0, 4000}}

\* what legacy_order_repo.get_active_orders gives health_check: it raises,
\* returns None, or returns orders whose amounts sum to total_lending
HealthLegacyOutcomes ==
    {[kind |-> "raises", total_lending |-> 0],
     [kind |-> "none", total_lending |-> 0]} \cup
    {[kind |-> "orders", total_lending |-> t] : t \in {-2000, 0, 3000}}

\* the total_balance the legacy aggregation derives from the active orders
LegacyTotalBalance(total_lending) == total_lending + 1000

\* the new-system test without the balance comparison
NewSystemHealthyAnyBalance(new) == new.kind = "status"

\* health_check, new system: unhealthy when the read raises, the status is
\* empty or its total_balance is negative
NewSystemHealthy(new) == new.kind = "status" /\ ~(new.total_balance < 0)

\* health_check, legacy system: unhealthy when the read raises or returns
\* None
LegacySystemHealthy(legacy) == legacy.kind = "orders"

\* 'overall_health' of health_check
OverallHealth(new, legacy) ==
    IF NewSystemHealthy(new) /\ LegacySystemHealthy(legacy)
    THEN "healthy"
    ELSE "degraded"

HealthCheck ==
    /\ \E new \in HealthNewOutcomes, legacy \in HealthLegacyOutcomes :
          dw_ret' =
            [NoCall EXCEPT
                !.op = "health_check",
                !.overall_health = OverallHealth(new, legacy),
                !.new_read = new.kind,
                !.new_balance = new.total_balance,
                !.legacy_read = legacy.kind,
                !.legacy_balance =
                    LegacyTotalBalance(legacy.total_lending),
                !.new_success = NewSystemHealthy(new),
                !.legacy_success = LegacySystemHealthy(legacy)]
    /\ UNCHANGED <<enable_new_system_write, enable_new_system_read,
                   enable_comparison, stats, write_calls, plannerVars, settleVars,
                   cycleVars, stratVars, orderVars, ladderVars>>

----------------------------------------------------------------------------
(* Daily settlement: DailySettlementService over DailyEarningsRepository *)

\* the (date, currency) keys settled
Keys == {"2024-01-01/USD"}

\* The two callers that share the event loop: the daily timer, which calls
\* perform_daily_settlement, and the operator, who calls
\* retry_failed_settlement.
Tasks == {"timer", "operator"}

SettlementStatus == {"PENDING", "IN_PROGRESS", "COMPLETED", "FAILED"}

\* Python None in an Optional[Decimal] column
Null == -1

\* Money is in tenths of a unit (0.8 -> 8), rates are in millionths,
\* percentages in hundredths of a percent.
RateScale == 1000000

\* daily_return_rate is kept in ten-millionths, annualized_return in
\* ten-millionths of a percent
ReturnScale == 10000000

\* _get_daily_interest_from_exchange: the ledger call answers; or it raises
\* BitfinexAPIError and _get_local_daily_interest is called instead; or it
\* raises something else
InterestOutcomes == {"exchange_ok", "api_error", "other_error"}

\* _get_wallet_balances: a funding wallet of the currency is listed, or the
\* call raises
WalletOutcomes == {"funding_wallet", "raises"}

\* _get_market_rates: the book has bids, or the call raises
MarketOutcomes == {"bids", "raises"}

\* which repository calls of a step raise DatabaseError
StoreFaults == [get_by_date : BOOLEAN, save : BOOLEAN, update : BOOLEAN]

NoFaults == [get_by_date |-> FALSE, save |-> FALSE, update |-> FALSE]

\* the rows of interest_payments for the settlement date (amounts in tenths)
LocalPayments == <<2, 3>>

\* _get_local_daily_interest: it calls
\* interest_payment_repo.get_payments_by_date, which InterestPaymentRepository
\* does not define (it has save_payment and save_payments_batch only), so
\* the attribute lookup raises AttributeError before any row is read
GetLocalDailyInterest(payments) == [raised |-> TRUE, value |-> 0]

\* the coroutine of _get_daily_interest_from_exchange
GetDailyInterestFromExchange(interest) ==
    IF interest = "exchange_ok" THEN [raised |-> FALSE, value |-> 8]
    ELSE IF interest = "api_error"
         THEN GetLocalDailyInterest(LocalPayments)
         ELSE [raised |-> TRUE, value |-> 0]

\* _get_wallet_balances: {} without a funding wallet, zeros on an exception
GetWalletBalances(wallet) ==
    IF wallet = "funding_wallet"
    THEN [raised |-> FALSE, has |-> TRUE, balance |-> 50000,
          available |-> 20000]
    ELSE IF wallet = "no_wallet"
         THEN [raised |-> FALSE, has |-> FALSE, balance |-> 0, available |-> 0]
         ELSE [raised |-> FALSE, has |-> TRUE, balance |-> 0, available |-> 0]

\* _get_market_rates: {} without bids and on an exception
GetMarketRates(market) ==
    IF market = "bids"
    THEN [raised |-> FALSE, has |-> TRUE, top_rate |-> 120, avg_rate |-> 110]
    ELSE [raised |-> FALSE, has |-> FALSE, top_rate |-> 0, avg_rate |-> 0]

\* _get_active_positions: the empty list
GetActivePositions == <<>>

\* _collect_settlement_data: gather of the four coroutines; the first
\* exception of any of them is re-raised as SettlementError
CollectSettlementData(interest, wallet, market) ==
    LET i == GetDailyInterestFromExchange(interest)
        w == GetWalletBalances(wallet)
        r == GetMarketRates(market)
    IN  [raised |-> i.raised \/ w.raised \/ r.raised,
         positions |-> GetActivePositions,
         exchange_daily_interest |-> i.value,
         exchange_wallet_balances |-> w,
         market_rates |-> r]

\* sum(pos.amount for pos in positions)
RECURSIVE SumPositionAmounts(_)
SumPositionAmounts(ps) ==
    IF ps = <<>> THEN 0 ELSE Head(ps).amount + SumPositionAmounts(Tail(ps))

\* sum(pos.amount * pos.rate for pos in positions)
RECURSIVE SumWeightedRates(_)
SumWeightedRates(ps) ==
    IF ps = <<>> THEN 0
    ELSE Head(ps).amount * Head(ps).rate + SumWeightedRates(Tail(ps))

\* the deployed amount summed over every position, whatever its status
SumAllAmounts(ps) == SumPositionAmounts(ps)

\* sum(pos.amount for pos in positions if pos.status == 'ACTIVE')
RECURSIVE SumActiveAmounts(_)
SumActiveAmounts(ps) ==
    IF ps = <<>> THEN 0
    ELSE (IF Head(ps).status = "ACTIVE" THEN Head(ps).amount ELSE 0)
         + SumActiveAmounts(Tail(ps))

\* _calculate_weighted_avg_rate
CalculateWeightedAvgRate(positions) ==
    IF positions = <<>> THEN 0
    ELSE LET total_amount == SumPositionAmounts(positions)
         IN  IF total_amount > 0
             THEN DecDiv(SumWeightedRates(positions), total_amount)
             ELSE 0

StrategyCount(positions, name) ==
    Cardinality({i \in 1..Len(positions) : positions[i].strategy_name = name})

\* _analyze_strategy_performance: the first strategy with the highest count,
\* the number of positions, the share of ACTIVE or CLOSED ones
AnalyzeStrategyPerformance(positions) ==
    IF positions = <<>>
    THEN [primary_strategy |-> "NONE", total_orders |-> 0, success_rate |-> 0]
    ELSE LET best ==
                 CHOOSE i \in 1..Len(positions) :
                    /\ \A j \in 1..Len(positions) :
                          StrategyCount(positions, positions[j].strategy_name)
                          <= StrategyCount(positions, positions[i].strategy_name)
                    /\ \A j \in 1..(i - 1) :
                          StrategyCount(positions, positions[j].strategy_name)
                          < StrategyCount(positions, positions[i].strategy_name)
             successful ==
                 Cardinality({i \in 1..Len(positions) :
                                positions[i].status \in {"ACTIVE", "CLOSED"}})
         IN  [primary_strategy |-> positions[best].strategy_name,
              total_orders |-> Len(positions),
              success_rate |-> DecDiv(successful * 10000, Len(positions))]

\* _calculate_market_competitiveness
CalculateMarketCompetitiveness(our_rate, market_rate) ==
    IF market_rate # Null /\ market_rate > 0
    THEN DecDiv(our_rate * 10000, market_rate)
    ELSE Null

\* _calculate_daily_earnings: the metric fields of the DailyEarningsCreate
CalculateDailyEarnings(input) ==
    LET total_interest == input.exchange_daily_interest
        deployed_amount == SumActiveAmounts(input.positions)
        available_amount ==
            IF input.exchange_wallet_balances.has
            THEN input.exchange_wallet_balances.available
            ELSE 0
        total_amount == deployed_amount + available_amount
        daily_return_rate ==
            IF deployed_amount > 0
            THEN DecDiv(total_interest * ReturnScale, deployed_amount)
            ELSE 0
        weighted_avg_rate ==
            IF deployed_amount > 0
            THEN CalculateWeightedAvgRate(input.positions)
            ELSE 0
        utilization_rate ==
            IF total_amount > 0
            THEN DecDiv(deployed_amount * 10000, total_amount)
            ELSE 0
        strategy_stats == AnalyzeStrategyPerformance(input.positions)
        market_avg_rate ==
            IF input.market_rates.has THEN input.market_rates.avg_rate
            ELSE Null
    IN  [total_interest |-> total_interest,
         deployed_amount |-> deployed_amount,
         available_amount |-> available_amount,
         weighted_avg_rate |-> weighted_avg_rate,
         utilization_rate |-> utilization_rate,
         daily_return_rate |-> daily_return_rate,
         annualized_return |-> daily_return_rate * 365 * 100,
         primary_strategy |-> strategy_stats.primary_strategy,
         total_orders_placed |-> strategy_stats.total_orders,
         orders_success_rate |-> strategy_stats.success_rate,
         market_avg_rate |-> market_avg_rate,
         market_competitiveness |->
            CalculateMarketCompetitiveness(
                weighted_avg_rate,
                IF input.market_rates.has THEN input.market_rates.avg_rate
                ELSE 0)]

\* the placeholder of _mark_settlement_status
Placeholder ==
    [total_interest |-> 0, deployed_amount |-> 0, available_amount |-> 0,
     weighted_avg_rate |-> 0, utilization_rate |-> 0, daily_return_rate |-> 0,
     annualized_return |-> 0, primary_strategy |-> "PENDING",
     total_orders_placed |-> 0, orders_success_rate |-> 0,
     market_avg_rate |-> Null, market_competitiveness |-> Null]

(* The table: a set of rows [key, settlement_status, m] with m the metric
   fields; db pairs the rows with the status writes of the step under way,
   each an <<old, new>> pair of a statement that changed a stored status. *)

RowsOf(rows, key) == {r \in rows : r.key = key}

\* the stored status of a key, "NONE" without a row
StoredStatus(rows, key) ==
    IF RowsOf(rows, key) = {} THEN "NONE"
    ELSE (CHOOSE r \in RowsOf(rows, key) : TRUE).settlement_status

\* INSERT without the ON CONFLICT clause (no upsert)
SaveAlwaysInsert(db, key, m) ==
    [rows |-> db.rows \cup
                {[key |-> key, settlement_status |-> "PENDING", m |-> m]},
     writes |-> db.writes \cup {<<"NONE", "PENDING">>}]

\* DailyEarningsRepository.save: INSERT ... ON CONFLICT (date, currency) DO
\* UPDATE SET <metrics>, settlement_status = 'PENDING'
Save(db, key, m) ==
    IF RowsOf(db.rows, key) = {}
    THEN [rows |-> db.rows \cup
                     {[key |-> key, settlement_status |-> "PENDING", m |-> m]},
          writes |-> db.writes \cup {<<"NONE", "PENDING">>}]
    ELSE [rows |->
            {IF r.key = key
             THEN [r EXCEPT !.m = m, !.settlement_status = "PENDING"]
             ELSE r : r \in db.rows},
          writes |->
            db.writes \cup
            {<<r.settlement_status, "PENDING">> :
                r \in {x \in RowsOf(db.rows, key) :
                         x.settlement_status # "PENDING"}}]

\* DailyEarningsRepository.update_settlement_status: UPDATE ... WHERE date
\* and currency match (no row, no effect)
UpdateSettlementStatus(db, key, status) ==
    [rows |->
        {IF r.key = key THEN [r EXCEPT !.settlement_status = status] ELSE r :
            r \in db.rows},
     writes |->
        db.writes \cup
        {<<r.settlement_status, status>> :
            r \in {x \in RowsOf(db.rows, key) : x.settlement_status # status}}]

\* _mark_settlement_status: create the placeholder when no row exists and the
\* status is IN_PROGRESS, then update the status; an exception of any
\* repository call ends it silently
MarkSettlementStatus(db, key, status, faults) ==
    IF faults.get_by_date THEN db
    ELSE IF RowsOf(db.rows, key) = {} /\ status = "IN_PROGRESS"
         THEN IF faults.save THEN db
              ELSE IF faults.update THEN Save(db, key, Placeholder)
                   ELSE UpdateSettlementStatus(Save(db, key, Placeholder),
                                               key, status)
         ELSE IF faults.update THEN db
              ELSE UpdateSettlementStatus(db, key, status)

\* get_settlement_status: the stored status, None without a row or on an
\* exception
GetSettlementStatus(rows, key, lookup_raises) ==
    IF lookup_raises THEN "NONE" ELSE StoredStatus(rows, key)

\* the test of retry_failed_settlement loosened to "not COMPLETED"
RetryAllowedUnlessCompleted(current_status) == current_status # "COMPLETED"

\* retry_failed_settlement goes on only from FAILED
RetryAllowed(current_status) == current_status = "FAILED"

\* a task's position; found is the stored status its run met on entry
Idle == [at |-> "idle", key |-> "none", found |-> "NONE"]

\* what a step that returns nothing leaves in st_ret
NoReturn ==
    [op |-> "none", task |-> "none", key |-> "none", success |-> FALSE,
     error |-> "", seen |-> "NONE", interest |-> "none", wallet |-> "none",
     market |-> "none", store_fault |-> FALSE]

\* the SettlementInput of a run whose four collectors found nothing
EmptyInput ==
    [raised |-> FALSE, positions |-> <<>>, exchange_daily_interest |-> 0,
     exchange_wallet_balances |-> GetWalletBalances("raises"),
     market_rates |-> GetMarketRates("raises")]

NoEarningsCall ==
    [called |-> FALSE, input |-> EmptyInput, result |-> Placeholder]

\* the table as a step finds it
Db == [rows |-> daily_earnings, writes |-> {}]

AnyFault(faults) == faults.get_by_date \/ faults.save \/ faults.update

\* perform_daily_settlement up to its first suspension: mark IN_PROGRESS,
\* then await the gather of _collect_settlement_data
PerformStart ==
    /\ pc["timer"] = Idle
    /\ \E key \in Keys, faults \in StoreFaults :
          \E db \in {MarkSettlementStatus(Db, key, "IN_PROGRESS", faults)} :
              /\ daily_earnings' = db.rows
              /\ statusWrites' = db.writes
              /\ pc' = [pc EXCEPT !["timer"] =
                           [at |-> "gather", key |-> key,
                            found |-> StoredStatus(daily_earnings, key)]]
    /\ st_ret' = NoReturn
    /\ UNCHANGED <<earnings_call, plannerVars, dualVars, cycleVars, stratVars, orderVars, ladderVars>>

\* retry_failed_settlement: refuse unless the stored status is FAILED, else
\* perform_daily_settlement up to its first suspension
RetryFailedSettlement ==
    /\ pc["operator"] = Idle
    /\ \E key \in Keys, lookup \in BOOLEAN, faults \in StoreFaults :
          LET current_status ==
                  GetSettlementStatus(daily_earnings, key, lookup)
          IN  IF RetryAllowed(current_status)
              THEN \E db \in {MarkSettlementStatus(Db, key, "IN_PROGRESS",
                                                      faults)} :
                       /\ daily_earnings' = db.rows
                       /\ statusWrites' = db.writes
                       /\ pc' = [pc EXCEPT !["operator"] =
                                    [at |-> "gather", key |-> key,
                                     found |-> current_status]]
                       /\ st_ret' = NoReturn
              ELSE /\ st_ret' =
                        [NoReturn EXCEPT
                            !.op = "retry_failed_settlement",
                            !.task = "operator",
                            !.key = key,
                            !.success = FALSE,
                            !.error = "cannot retry",
                            !.seen = current_status,
                            !.store_fault = lookup]
                   /\ statusWrites' = {}
                   /\ UNCHANGED <<daily_earnings, pc>>
    /\ UNCHANGED <<earnings_call, plannerVars, dualVars, cycleVars, stratVars, orderVars, ladderVars>>

\* perform_daily_settlement from the return of the gather to its return:
\* calculate, save, mark COMPLETED; or, on any exception, mark FAILED
PerformFinishResult(db, key, interest, wallet, market, faults) ==
    LET input == CollectSettlementData(interest, wallet, market)
        m == CalculateDailyEarnings(input)
    IN  IF input.raised
        THEN [db |-> MarkSettlementStatus(db, key, "FAILED", faults),
              success |-> FALSE, error |-> "collect"]
        ELSE IF faults.save
             THEN [db |-> MarkSettlementStatus(db, key, "FAILED", faults),
                   success |-> FALSE, error |-> "save"]
             ELSE [db |-> MarkSettlementStatus(Save(db, key, m), key,
                                                "COMPLETED", faults),
                   success |-> TRUE, error |-> ""]

PerformFinish ==
    \E t \in Tasks :
        /\ pc[t].at = "gather"
        /\ \E interest \in InterestOutcomes, wallet \in WalletOutcomes,
              market \in MarketOutcomes, faults \in StoreFaults :
              \E r \in {PerformFinishResult(Db, pc[t].key, interest, wallet,
                                            market, faults)} :
                  /\ daily_earnings' = r.db.rows
                  /\ statusWrites' = r.db.writes
                  /\ st_ret' =
                        [NoReturn EXCEPT
                            !.op = "perform_daily_settlement",
                            !.task = t,
                            !.key = pc[t].key,
                            !.success = r.success,
                            !.error = r.error,
                            !.seen = pc[t].found,
                            !.interest = interest,
                            !.wallet = wallet,
                            !.market = market,
                            !.store_fault = AnyFault(faults)]
        /\ pc' = [pc EXCEPT ![t] = Idle]
        /\ UNCHANGED <<earnings_call, plannerVars, dualVars, cycleVars,
                       stratVars, orderVars, ladderVars>>

\* positions a SettlementInput may carry (amounts in tenths, rates in
\* millionths)
PositionSamples ==
    {[amount |-> 10000, rate |-> 100, status |-> "ACTIVE",
      strategy_name |-> "laddering"],
     [amount |-> 20000, rate |-> 150, status |-> "ACTIVE",
      strategy_name |-> "laddering"],
     [amount |-> 5000, rate |-> 120, status |-> "CLOSED",
      strategy_name |-> "market_taker"],
     [amount |-> 10000, rate |-> 100, status |-> "CLOSING",
      strategy_name |-> "market_taker"]}

MaxPositions == 2

PositionLists == UNION {[1..n -> PositionSamples] : n \in 0..MaxPositions}

\* the SettlementInput values handed to _calculate_daily_earnings
EarningsInputs ==
    {[EmptyInput EXCEPT
        !.positions = ps,
        !.exchange_daily_interest = i,
        !.exchange_wallet_balances.available = a,
        !.exchange_wallet_balances.balance = a,
        !.market_rates = GetMarketRates("bids")] :
        ps \in PositionLists, i \in {0, 5, 8}, a \in {0, 20000}}

\* _calculate_daily_earnings(input_data) followed by daily_earnings_repo.save
\* of its result, as in perform_daily_settlement
CalculateAndSaveEarnings ==
    /\ \E key \in Keys :
          \E m \in {CalculateDailyEarnings(earnings_call.input)} :
              \E db \in {Save(Db, key, m)} :
                  /\ earnings_call' =
                        [earnings_call EXCEPT !.called = TRUE, !.result = m]
                  /\ daily_earnings' = db.rows
                  /\ statusWrites' = db.writes
    /\ UNCHANGED <<pc, st_ret, plannerVars, dualVars, cycleVars, stratVars, orderVars, ladderVars>>

----------------------------------------------------------------------------
(* Allocation cycle: FundingBot.run and SimpleLendingBot.run_cycle/start *)

Bots == {"FundingBot", "SimpleLendingBot"}

\* TradingConfig.min_order_amount (default)
trading_min_order_amount == 150

\* SimpleLendingBot.min_amount and max_amount (defaults)
min_amount == 50

max_amount == 10000

\* ladder_strategy: ladder_count
ladder_count == 5

\* the longest list of offers a strategy hands to FundingBot here
MaxPlan == 3

\* balances the exchange may report
CycleBalances == {0, 100, 149, 150, 600}

\* what a step of FundingBot's cycle may raise: the insufficient-balance
\* error, another FundingBotError, or any other Exception
CycleErrors == {"InsufficientBalanceError", "FundingBotError", "Exception"}

\* offers a strategy may hand over: a valid one, one below the minimum, one
\* with rate 0, one with period 0 (rate in millionths)
OfferSamples ==
    {[amount |-> 150, rate |-> 100, period |-> 2],
     [amount |-> 149, rate |-> 100, period |-> 2],
     [amount |-> 150, rate |-> 0, period |-> 2],
     [amount |-> 150, rate |-> 100, period |-> 0]}

Plans == UNION {[1..n -> OfferSamples] : n \in 0..MaxPlan}

\* the except clauses of FundingBot.run taken to catch FundingBotError only
CaughtOnlyBotErrors(err) == err # "Exception"

\* the except clauses of FundingBot.run: InsufficientBalanceError,
\* FundingBotError, Exception
Caught(err) == err \in CycleErrors

\* where FundingBot.run goes after a step that swallowed its own exception
NextStepSwallowing(step, err) ==
    IF step = "cancel" THEN "balance"
    ELSE IF step = "balance" THEN "market"
         ELSE "generate"

\* where FundingBot.run goes after a step: to the next statement when the
\* step returned, through the matching except clause to the finally block
\* when it raised, out of the loop when nothing catches
NextStep(step, err) ==
    IF err # "none"
    THEN IF Caught(err) THEN "finally" ELSE "stopped"
    ELSE IF step = "cancel" THEN "balance"
         ELSE IF step = "balance" THEN "market"
              ELSE "generate"

\* the validation of place_funding_offer
ValidOffer(offer) ==
    /\ ~(offer.amount < trading_min_order_amount)
    /\ ~(offer.rate <= 0)
    /\ ~(offer.period <= 0)

\* the placement loop leaving at the first offer that failed
AfterOfferStopAtFailure(i, n, result) ==
    IF i < n /\ result = "submitted" THEN "place" ELSE "finally"

\* the placement loop: the inner except clause ends the iteration only
AfterOffer(i, n, result) == IF i < n THEN "place" ELSE "finally"

\* cancel_all_funding_offers, then sleep 5 s
FB_CancelAllFundingOffers ==
    /\ bot = "FundingBot"
    /\ loop_pc = "cancel"
    /\ \E err \in {"none", "FundingBotError", "Exception"} :
          /\ cycle_log' = Append(cycle_log,
                                 IF err = "none" THEN "cancel_returned"
                                 ELSE "cancel_raised")
          /\ loop_pc' = NextStep("cancel", err)
    /\ UNCHANGED <<bot, cycle_balance, offers_to_place, results>>
    /\ UNCHANGED <<plannerVars, dualVars, settleVars, stratVars, orderVars, ladderVars>>

\* get_available_balance
FB_GetAvailableBalance ==
    /\ bot = "FundingBot"
    /\ loop_pc = "balance"
    /\ \/ \E b \in CycleBalances :
             /\ cycle_balance' = b
             /\ cycle_log' = Append(cycle_log, "balance_read")
             /\ loop_pc' = NextStep("balance", "none")
       \/ \E err \in {"FundingBotError", "Exception"} :
             /\ cycle_log' = Append(cycle_log, "balance_raised")
             /\ loop_pc' = NextStep("balance", err)
             /\ UNCHANGED cycle_balance
    /\ UNCHANGED <<bot, offers_to_place, results>>
    /\ UNCHANGED <<plannerVars, dualVars, settleVars, stratVars, orderVars, ladderVars>>

\* analyze_and_log_market, then the balance test: below the minimum raises
\* InsufficientBalanceError
FB_AnalyzeMarket ==
    /\ bot = "FundingBot"
    /\ loop_pc = "market"
    /\ \E err \in {"none", "FundingBotError"} :
          IF err # "none"
          THEN /\ cycle_log' = Append(cycle_log, "market_raised")
               /\ loop_pc' = NextStep("market", err)
          ELSE IF cycle_balance < trading_min_order_amount
               THEN /\ cycle_log' =
                          cycle_log \o <<"market_read", "insufficient_raised">>
                    /\ loop_pc' = NextStep("market", "InsufficientBalanceError")
               ELSE /\ cycle_log' = Append(cycle_log, "market_read")
                    /\ loop_pc' = NextStep("market", "none")
    /\ UNCHANGED <<bot, cycle_balance, offers_to_place, results>>
    /\ UNCHANGED <<plannerVars, dualVars, settleVars, stratVars, orderVars, ladderVars>>

\* strategy.generate_offers; an empty list leaves nothing to place
FB_GenerateOffers ==
    /\ bot = "FundingBot"
    /\ loop_pc = "generate"
    /\ \/ \E plan \in Plans :
             /\ offers_to_place' = plan
             /\ cycle_log' = Append(cycle_log, "generated")
             /\ loop_pc' = IF plan = <<>> THEN "finally" ELSE "place"
       \/ \E err \in {"FundingBotError", "Exception"} :
             /\ cycle_log' = Append(cycle_log, "generate_raised")
             /\ loop_pc' = NextStep("generate", err)
             /\ UNCHANGED offers_to_place
    /\ UNCHANGED <<bot, cycle_balance, results>>
    /\ UNCHANGED <<plannerVars, dualVars, settleVars, stratVars, orderVars, ladderVars>>

\* one iteration of the placement loop: place_funding_offer validates, then
\* submits; whatever it raises is caught inside the loop
FB_PlaceFundingOffer ==
    /\ bot = "FundingBot"
    /\ loop_pc = "place"
    /\ LET i == Len(results) + 1
       IN  \E submission \in {"submitted", "raised"} :
              LET result == IF ValidOffer(offers_to_place[i]) THEN submission
                            ELSE "invalid"
              IN  /\ results' = Append(results, result)
                  /\ loop_pc' = AfterOffer(i, Len(offers_to_place), result)
    /\ UNCHANGED <<bot, cycle_balance, cycle_log, offers_to_place>>
    /\ UNCHANGED <<plannerVars, dualVars, settleVars, stratVars, orderVars, ladderVars>>

\* the finally block: sleep for the interval, then the next cycle
FB_SleepInterval ==
    /\ bot = "FundingBot"
    /\ loop_pc = "finally"
    /\ loop_pc' = "cancel"
    /\ cycle_balance' = 0
    /\ cycle_log' = <<>>
    /\ offers_to_place' = <<>>
    /\ results' = <<>>
    /\ UNCHANGED bot
    /\ UNCHANGED <<plannerVars, dualVars, settleVars, stratVars, orderVars, ladderVars>>

\* SimpleLendingBot.ladder_strategy (amounts in whole units)
LadderStrategy(available) ==
    IF available < min_amount THEN <<>>
    ELSE LET per_ladder_times_count == MinOf(available, max_amount)
         IN  IF per_ladder_times_count >= min_amount * ladder_count
             THEN [i \in 1..ladder_count |->
                     [amount |-> DecDiv(per_ladder_times_count, ladder_count),
                      rate |-> 100 + 100 * (i - 1),
                      period |-> 2]]
             ELSE <<>>

\* run_cycle: api.cancel_all_funding_offers, which returns False on any
\* failure, then sleep 2 s
SB_CancelAllFundingOffers ==
    /\ bot = "SimpleLendingBot"
    /\ loop_pc = "cancel"
    /\ cycle_log' = Append(cycle_log, "cancel_returned")
    /\ loop_pc' = "balance"
    /\ UNCHANGED <<bot, cycle_balance, offers_to_place, results>>
    /\ UNCHANGED <<plannerVars, dualVars, settleVars, stratVars, orderVars, ladderVars>>

\* run_cycle: api.get_wallet_balances ({} on any failure); no balance ends
\* the cycle
SB_GetWalletBalances ==
    /\ bot = "SimpleLendingBot"
    /\ loop_pc = "balance"
    /\ \E b \in CycleBalances :
          /\ cycle_balance' = b
          /\ cycle_log' = Append(cycle_log, "balance_read")
          /\ loop_pc' = IF b <= 0 THEN "finally" ELSE "generate"
    /\ UNCHANGED <<bot, offers_to_place, results>>
    /\ UNCHANGED <<plannerVars, dualVars, settleVars, stratVars, orderVars, ladderVars>>

\* run_cycle: ladder_strategy; no orders ends the cycle
SB_LadderStrategy ==
    /\ bot = "SimpleLendingBot"
    /\ loop_pc = "generate"
    /\ offers_to_place' = LadderStrategy(cycle_balance)
    /\ cycle_log' = Append(cycle_log, "generated")
    /\ loop_pc' = IF offers_to_place' = <<>> THEN "finally" ELSE "place"
    /\ UNCHANGED <<bot, cycle_balance, results>>
    /\ UNCHANGED <<plannerVars, dualVars, settleVars, stratVars, orderVars, ladderVars>>

\* run_cycle: api.submit_funding_offer, which returns None on any failure
SB_SubmitFundingOffer ==
    /\ bot = "SimpleLendingBot"
    /\ loop_pc = "place"
    /\ \E result \in {"submitted", "rejected"} :
          /\ results' = Append(results, result)
          /\ loop_pc' = IF Len(results') < Len(offers_to_place) THEN "place"
                        ELSE "finally"
    /\ UNCHANGED <<bot, cycle_balance, cycle_log, offers_to_place>>
    /\ UNCHANGED <<plannerVars, dualVars, settleVars, stratVars, orderVars, ladderVars>>

\* start: run_cycle has returned; the schedule runs it again after
\* run_interval minutes
SB_RunPending ==
    /\ bot = "SimpleLendingBot"
    /\ loop_pc = "finally"
    /\ loop_pc' = "cancel"
    /\ cycle_balance' = 0
    /\ cycle_log' = <<>>
    /\ offers_to_place' = <<>>
    /\ results' = <<>>
    /\ UNCHANGED bot
    /\ UNCHANGED <<plannerVars, dualVars, settleVars, stratVars, orderVars, ladderVars>>

----------------------------------------------------------------------------
(* The ladder, adaptive-ladder, spread-filler and market-taker strategies *)

Strategies ==
    {"laddering", "adaptive_laddering", "spread_filler", "market_taker"}

\* Amounts are in thousandths of a unit, rates in millionths.
StratScale == 1000

\* values of MIN_ORDER_AMOUNT (units): the default and a larger one
ConfiguredMinimums == {150, 200}

\* StrategyConfig defaults: laddering_ladders, laddering_rate_spread,
\* mt_amount_percentage (in thousandths), sf_min_spread_threshold
laddering_ladders == 3

laddering_rate_spread == 100

mt_amount_percentage == 995

sf_min_spread_threshold == 100

\* the literal minimum of AdaptiveLadderingStrategy.generate_offers (units)
AdaptiveLiteralMinimum == 150

\* balances handed to generate_offers (tenths of a unit, multiples of 0.2 so
\* that balance * 0.995 is a whole number of thousandths)
StratBalanceTenths == {0, 1000, 1500, 1506, 1508, 2998, 4000, 5000, 10000}

StratBalances == {t * (StratScale \div 10) : t \in StratBalanceTenths}

\* the funding book as the strategies read it: the best bid and the best ask
\* of the lending duration, when there is one
StratMarkets ==
    {[has_bid |-> FALSE, bid |-> 0, has_ask |-> FALSE, ask |-> 0],
     [has_bid |-> TRUE, bid |-> 0, has_ask |-> FALSE, ask |-> 0],
     [has_bid |-> TRUE, bid |-> 200, has_ask |-> FALSE, ask |-> 0],
     [has_bid |-> TRUE, bid |-> 200, has_ask |-> TRUE, ask |-> 250],
     [has_bid |-> TRUE, bid |-> 200, has_ask |-> TRUE, ask |-> 500]}

\* what the adaptive strategy finds in its history: no db_manager, an empty
\* frame, or an average rate and a volatility
Histories ==
    {[kind |-> "no_db_manager", avg_rate |-> 0, volatility |-> 0],
     [kind |-> "empty", avg_rate |-> 0, volatility |-> 0],
     [kind |-> "data", avg_rate |-> 0, volatility |-> 0],
     [kind |-> "data", avg_rate |-> 100, volatility |-> 10]}

\* the sizing shared by the two ladder strategies: balance / num_ladders,
\* and when that is below the minimum, num_ladders = int(balance // minimum)
\* (stored in self) and the division again; a num_ladders of 0 left by an
\* earlier call makes the first division raise
LadderSizing(balance, ladders, minimum) ==
    IF ladders = 0
    THEN [raised |-> TRUE, num_ladders |-> ladders, amount |-> 0]
    ELSE IF DecDiv(balance, ladders) < minimum
         THEN LET n == balance \div minimum
              IN  IF n = 0
                  THEN [raised |-> FALSE, num_ladders |-> 0, amount |-> 0]
                  ELSE [raised |-> FALSE, num_ladders |-> n,
                        amount |-> DecDiv(balance, n)]
         ELSE [raised |-> FALSE, num_ladders |-> ladders,
               amount |-> DecDiv(balance, ladders)]

\* the loop of the ladder strategies: rate = base + i * spread for i from 0,
\* a rate <= 0 is skipped
RECURSIVE LadderOffers(_, _, _, _, _)
LadderOffers(i, n, base_rate, spread, amount) ==
    IF i >= n THEN <<>>
    ELSE (IF base_rate + i * spread <= 0 THEN <<>>
          ELSE <<[rate |-> base_rate + i * spread, amount |-> amount]>>)
         \o LadderOffers(i + 1, n, base_rate, spread, amount)

\* LadderingStrategy.generate_offers
LadderingGenerateOffers(balance, market, ladders, minimum) ==
    IF ~market.has_bid
    THEN [raised |-> FALSE, num_ladders |-> ladders, offers |-> <<>>]
    ELSE LET z == LadderSizing(balance, ladders, minimum)
         IN  [raised |-> z.raised,
              num_ladders |-> z.num_ladders,
              offers |-> IF z.raised THEN <<>>
                         ELSE LadderOffers(0, z.num_ladders, market.bid,
                                           laddering_rate_spread, z.amount)]

\* AdaptiveLadderingStrategy.generate_offers; the dynamic spread is
\* volatility * 1.5
AdaptiveGenerateOffers(balance, market, history, ladders) ==
    IF history.kind # "data"
    THEN [raised |-> FALSE, num_ladders |-> ladders, offers |-> <<>>]
    ELSE LET base_rate == IF market.has_bid
                          THEN MaxOf(market.bid, history.avg_rate)
                          ELSE history.avg_rate
             z == LadderSizing(balance, ladders,
                               AdaptiveLiteralMinimum * StratScale)
         IN  [raised |-> z.raised,
              num_ladders |-> z.num_ladders,
              offers |-> IF z.raised THEN <<>>
                         ELSE LadderOffers(0, z.num_ladders, base_rate,
                                           DecDiv(history.volatility * 3, 2),
                                           z.amount)]

\* SpreadFillerStrategy.generate_offers (spread_position_ratio 0.5)
SpreadFillerGenerateOffers(balance, market, minimum) ==
    IF ~market.has_bid \/ ~market.has_ask THEN <<>>
    ELSE LET spread == market.ask - market.bid
             offer_rate == IF spread < sf_min_spread_threshold THEN market.bid
                           ELSE market.bid + DecDiv(spread, 2)
         IN  IF offer_rate <= 0 THEN <<>>
             ELSE IF balance < minimum THEN <<>>
                  ELSE <<[rate |-> offer_rate, amount |-> balance]>>

\* MarketTakerStrategy.generate_offers: balance * 0.995 is exact
MarketTakerGenerateOffers(balance, market, minimum) ==
    IF ~market.has_bid THEN <<>>
    ELSE IF market.bid <= 0 THEN <<>>
         ELSE LET offer_amount == (balance * mt_amount_percentage) \div 1000
              IN  IF balance * mt_amount_percentage < minimum * 1000
                  THEN <<>>
                  ELSE <<[rate |-> market.bid, amount |-> offer_amount]>>

NoMarket == [has_bid |-> FALSE, bid |-> 0, has_ask |-> FALSE, ask |-> 0]

NoHistory == [kind |-> "no_db_manager", avg_rate |-> 0, volatility |-> 0]

NoStratCall ==
    [called |-> FALSE, raised |-> FALSE, balance |-> 0, market |-> NoMarket,
     history |-> NoHistory]

GenerateLaddering ==
    /\ strategy = "laddering"
    /\ \E balance \in StratBalances, market \in StratMarkets :
          \E r \in {LadderingGenerateOffers(balance, market, num_ladders,
                                            cfg_min_order_amount * StratScale)} :
              /\ strat_offers' = r.offers
              /\ num_ladders' = r.num_ladders
              /\ strat_call' = [called |-> TRUE, raised |-> r.raised,
                                balance |-> balance, market |-> market,
                                history |-> NoHistory]
    /\ UNCHANGED <<strategy, cfg_min_order_amount>>
    /\ UNCHANGED <<plannerVars, dualVars, settleVars, cycleVars, orderVars, ladderVars>>

GenerateAdaptiveLaddering ==
    /\ strategy = "adaptive_laddering"
    /\ \E balance \in StratBalances, market \in StratMarkets,
          history \in Histories :
          \E r \in {AdaptiveGenerateOffers(balance, market, history,
                                           num_ladders)} :
              /\ strat_offers' = r.offers
              /\ num_ladders' = r.num_ladders
              /\ strat_call' = [called |-> TRUE, raised |-> r.raised,
                                balance |-> balance, market |-> market,
                                history |-> history]
    /\ UNCHANGED <<strategy, cfg_min_order_amount>>
    /\ UNCHANGED <<plannerVars, dualVars, settleVars, cycleVars, orderVars, ladderVars>>

GenerateSpreadFiller ==
    /\ strategy = "spread_filler"
    /\ \E balance \in StratBalances, market \in StratMarkets :
          /\ strat_offers' =
                SpreadFillerGenerateOffers(balance, market,
                                           cfg_min_order_amount * StratScale)
          /\ strat_call' = [called |-> TRUE, raised |-> FALSE,
                            balance |-> balance, market |-> market,
                            history |-> NoHistory]
    /\ UNCHANGED <<strategy, cfg_min_order_amount, num_ladders>>
    /\ UNCHANGED <<plannerVars, dualVars, settleVars, cycleVars, orderVars, ladderVars>>

GenerateMarketTaker ==
    /\ strategy = "market_taker"
    /\ \E balance \in StratBalances, market \in StratMarkets :
          /\ strat_offers' =
                MarketTakerGenerateOffers(balance, market,
                                          cfg_min_order_amount * StratScale)
          /\ strat_call' = [called |-> TRUE, raised |-> FALSE,
                            balance |-> balance, market |-> market,
                            history |-> NoHistory]
    /\ UNCHANGED <<strategy, cfg_min_order_amount, num_ladders>>
    /\ UNCHANGED <<plannerVars, dualVars, settleVars, cycleVars, orderVars, ladderVars>>

----------------------------------------------------------------------------
(* OrderManager: status synchronisation and interest payments *)

OrderStatuses ==
    {"PENDING", "ACTIVE", "EXECUTED", "PARTIALLY_FILLED", "CANCELLED",
     "EXPIRED"}

\* LendingOrder.is_active
ActiveStatuses == {"PENDING", "ACTIVE", "PARTIALLY_FILLED"}

\* LendingOrder.is_completed
CompletedStatuses == {"EXECUTED", "CANCELLED", "EXPIRED"}

MaxOrders == 2

OrderIds == 1 .. MaxOrders

\* an order id a ledger entry can name that is in no row of lending_orders
UnknownOrderId == MaxOrders + 1

MaxLedgers == 2

LedgerIds == 1 .. MaxLedgers

\* the STATUS field of a funding offer, upper-cased; "UNKNOWN" is any string
\* the map does not hold
BitfinexStatusStrings ==
    {"ACTIVE", "EXECUTED", "PARTIALLY FILLED", "CANCELED", "EXPIRED",
     "PENDING", "UNKNOWN"}

\* _map_bitfinex_status
MapBitfinexStatus(status_str) ==
    CASE status_str = "ACTIVE" -> "ACTIVE"
      [] status_str = "EXECUTED" -> "EXECUTED"
      [] status_str = "PARTIALLY FILLED" -> "PARTIALLY_FILLED"
      [] status_str = "CANCELED" -> "CANCELLED"
      [] status_str = "EXPIRED" -> "EXPIRED"
      [] status_str = "PENDING" -> "PENDING"
      [] OTHER -> "PENDING"

\* what api_client.get_funding_offers answers: the live offers of a subset
\* of the orders, each with its STATUS field
LiveOfferLists ==
    UNION {[ids -> BitfinexStatusStrings] : ids \in SUBSET OrderIds}

\* lending_order_repo.get_active_orders: the ids of the rows an active
\* status selects
GetActiveOrders(db) == {o \in OrderIds : db[o] \in ActiveStatuses}

\* lending_order_repo.get_by_order_id: a row, or None for an unknown id
GetByOrderId(db, order_id) ==
    IF order_id \in OrderIds THEN [found |-> TRUE, status |-> db[order_id]]
    ELSE [found |-> FALSE, status |-> "PENDING"]

\* the loop of sync_order_statuses over db_active_orders from order i on;
\* update_fails names the order whose update raises DatabaseError (0: none),
\* which ends the loop and keeps the rows written before it
RECURSIVE SyncFrom(_, _, _, _, _)
SyncFrom(i, active, db, live, update_fails) ==
    IF i > MaxOrders THEN [raised |-> FALSE, db |-> db]
    ELSE IF i \notin active THEN SyncFrom(i + 1, active, db, live, update_fails)
    ELSE IF i \in DOMAIN live
         THEN IF update_fails = i THEN [raised |-> TRUE, db |-> db]
              ELSE SyncFrom(i + 1, active,
                            [db EXCEPT ![i] = MapBitfinexStatus(live[i])],
                            live, update_fails)
         ELSE IF db[i] \in CompletedStatuses
              THEN SyncFrom(i + 1, active, db, live, update_fails)
              ELSE IF update_fails = i THEN [raised |-> TRUE, db |-> db]
                   ELSE SyncFrom(i + 1, active, [db EXCEPT ![i] = "EXECUTED"],
                                 live, update_fails)

\* sync_order_statuses: api is what get_funding_offers does, repo what
\* get_active_orders does; every exception is logged and swallowed
SyncOrderStatusesResult(db, api, repo, live, update_fails) ==
    IF api = "raises" \/ repo = "raises" THEN [raised |-> TRUE, db |-> db]
    ELSE SyncFrom(1, GetActiveOrders(db), db, live, update_fails)

\* a ledger entry as process_interest_payments reads it: the ledger id (0 for
\* a missing id) and the order id its description names (0 when it names
\* none)
LedgerEntries ==
    [id : {0} \cup LedgerIds, order_id : 0 .. UnknownOrderId]

LedgerLists ==
    {<<>>} \cup {<<e>> : e \in LedgerEntries}
           \cup {<<e1, e2>> : e1 \in LedgerEntries, e2 \in LedgerEntries}

\* the loop of process_interest_payments from entry i on: a ledger id
\* already stored is skipped, from_ledger_entry raises ValueError for a
\* missing id, a DatabaseError of the save or of the order update is caught
\* per entry
RECURSIVE ProcessFrom(_, _, _, _, _, _)
ProcessFrom(i, ledgers, db, saved, save_fails, update_fails) ==
    IF i > Len(ledgers) THEN [db |-> db, saved |-> saved]
    ELSE LET entry == ledgers[i]
             lending_order == GetByOrderId(db, entry.order_id)
         IN  IF entry.id \in saved \/ entry.id = 0 \/ save_fails = entry.id
             THEN ProcessFrom(i + 1, ledgers, db, saved, save_fails,
                              update_fails)
             ELSE IF /\ entry.order_id # 0
                     /\ lending_order.found
                     /\ lending_order.status # "EXECUTED"
                     /\ update_fails # entry.order_id
                  THEN ProcessFrom(i + 1, ledgers,
                                   [db EXCEPT ![entry.order_id] = "EXECUTED"],
                                   saved \cup {entry.id}, save_fails,
                                   update_fails)
                  ELSE ProcessFrom(i + 1, ledgers, db, saved \cup {entry.id},
                                   save_fails, update_fails)

\* process_interest_payments: repo is what get_latest_payment does, api what
\* get_ledgers does, sf and uf the ledger id whose save fails and the order
\* id whose update fails
ProcessInterestPaymentsResult(db, saved, repo, api, ledgers, sf, uf) ==
    IF repo = "raises" \/ api = "raises"
    THEN [raised |-> TRUE, db |-> db, saved |-> saved]
    ELSE IF ledgers = <<>>
         THEN [raised |-> FALSE, db |-> db, saved |-> saved]
         ELSE LET r == ProcessFrom(1, ledgers, db, saved, sf, uf)
              IN  [raised |-> FALSE, db |-> r.db, saved |-> r.saved]

CallOutcomes == {"ok", "raises"}

NoOrderCall == [op |-> "none", raised |-> FALSE, paid |-> {}]

OrderInit0 ==
    /\ lending_orders = [o \in OrderIds |-> "PENDING"]
    /\ interest_payments = {}
    /\ order_call = NoOrderCall

SyncOrderStatuses ==
    /\ \E api \in CallOutcomes, repo \in CallOutcomes :
       \E live \in (IF api = "ok" /\ repo = "ok" THEN LiveOfferLists
                    ELSE {<<>>}),
          update_fails \in (IF api = "ok" /\ repo = "ok"
                            THEN {0} \cup OrderIds ELSE {0}) :
          \E r \in {SyncOrderStatusesResult(lending_orders, api, repo, live,
                                            update_fails)} :
              /\ lending_orders' = r.db
              /\ order_call' = [op |-> "sync_order_statuses",
                                raised |-> r.raised, paid |-> {}]
    /\ UNCHANGED interest_payments
    /\ UNCHANGED <<plannerVars, dualVars, settleVars, cycleVars, stratVars,
                   ladderVars>>

ProcessInterestPayments ==
    /\ \E repo \in CallOutcomes, api \in CallOutcomes :
       \E ledgers \in (IF api = "ok" /\ repo = "ok" THEN LedgerLists
                       ELSE {<<>>}),
          save_fails \in (IF api = "ok" /\ repo = "ok"
                          THEN {0} \cup LedgerIds ELSE {0}),
          update_fails \in (IF api = "ok" /\ repo = "ok"
                            THEN {0} \cup OrderIds ELSE {0}) :
          \E r \in {ProcessInterestPaymentsResult(lending_orders,
                        interest_payments, repo, api, ledgers, save_fails,
                        update_fails)} :
              /\ lending_orders' = r.db
              /\ interest_payments' = r.saved
              /\ order_call' =
                    [op |-> "process_interest_payments", raised |-> r.raised,
                     paid |-> {ledgers[i].order_id : i \in
                                 {k \in DOMAIN ledgers :
                                    ledgers[k].id \in
                                        r.saved \ interest_payments}}]
    /\ UNCHANGED <<plannerVars, dualVars, settleVars, cycleVars, stratVars,
                   ladderVars>>

----------------------------------------------------------------------------
(* SimpleLendingBot.ladder_strategy with its two-decimal rounding *)

\* balances are in thousandths of a unit, amount_per_ladder in
\* ten-thousandths (a fifth of a thousandth is two ten-thousandths, so the
\* Decimal quotient is exact), the rounded amounts in hundredths
MilliPerUnit == 1000

\* round(amount_per_ladder, 2) of a Decimal: half-even to two decimals
RoundToCents(x) == DecDiv(x, 100)

\* min(available_balance / ladder_count, self.max_amount / ladder_count), in
\* ten-thousandths
AmountPerLadder(available) ==
    MinOf((available * 10) \div ladder_count,
          (max_amount * 10 * MilliPerUnit) \div ladder_count)

\* ladder_strategy: no orders below min_amount; else ladder_count orders of
\* the rounded amount when the unrounded amount reaches min_amount
LadderStrategyToCents(available) ==
    IF available < min_amount * MilliPerUnit THEN <<>>
    ELSE IF AmountPerLadder(available) >= min_amount * 10 * MilliPerUnit
         THEN [i \in 1 .. ladder_count |->
                 [amount |-> RoundToCents(AmountPerLadder(available)),
                  rate |-> 100 + 100 * (i - 1),
                  period |-> 2]]
         ELSE <<>>

\* the available balances handed to ladder_strategy (thousandths)
LadderBalances ==
    {1, 49999, 50000, 249999, 299999, 9999999, 10000000, 10000030, 12345678}
        \cup (250000 .. 250100)

NoLadderCall == [called |-> FALSE, available |-> 0, orders |-> <<>>]

LadderInit0 == ladder_call = NoLadderCall

CallLadderStrategy ==
    /\ \E available \in LadderBalances :
          ladder_call' = [called |-> TRUE, available |-> available,
                          orders |-> LadderStrategyToCents(available)]
    /\ UNCHANGED <<plannerVars, dualVars, settleVars, cycleVars, stratVars,
                   orderVars>>

PlannerInit0 ==
    /\ available_balance = 0
    /\ market_data = [bids |-> <<>>, has_avg_rate |-> FALSE, avg_rate |-> 0]
    /\ offers = <<>>
    /\ path = "none"
    /\ analysis = NoAnalysis
    /\ alloc = NoAllocation

DualInit0 ==
    /\ enable_new_system_write = TRUE
    /\ enable_new_system_read = FALSE
    /\ enable_comparison = TRUE
    /\ stats = [dual_writes |-> 0, write_errors |-> 0, comparison_checks |-> 0,
                data_inconsistencies |-> 0, new_system_errors |-> 0]
    /\ dw_ret = NoCall
    /\ write_calls = 0

SettleInit0 ==
    /\ daily_earnings = {}
    /\ pc = [t \in Tasks |-> Idle]
    /\ statusWrites = {}
    /\ st_ret = NoReturn
    /\ earnings_call = NoEarningsCall

\* the variables of the allocation cycle while no bot runs
CycleInit0 ==
    /\ bot = "FundingBot"
    /\ loop_pc = "cancel"
    /\ cycle_balance = 0
    /\ cycle_log = <<>>
    /\ offers_to_place = <<>>
    /\ results = <<>>

\* the variables of the four strategies while none is in use
StratInit0 ==
    /\ strategy = "laddering"
    /\ cfg_min_order_amount = 150
    /\ num_ladders = laddering_ladders
    /\ strat_offers = <<>>
    /\ strat_call = NoStratCall

InitPlanner ==
    /\ available_balance \in Balances
    /\ market_data \in Markets
    /\ offers = <<>>
    /\ path = "none"
    /\ analysis = NoAnalysis
    /\ alloc = NoAllocation
    /\ DualInit0
    /\ SettleInit0
    /\ CycleInit0
    /\ StratInit0
    /\ OrderInit0
    /\ LadderInit0

GenerateOffers ==
    LET r == GenerateOffersResult(available_balance, market_data)
    IN  /\ offers' = r.offers
        /\ path' = r.path
        /\ analysis' =
              IF available_balance < min_order_amount
              THEN analysis
              ELSE AnalysisOf(market_data)
        /\ UNCHANGED <<available_balance, market_data, alloc, dualVars,
                       settleVars, cycleVars, stratVars, orderVars, ladderVars>>

\* the snapshots handed to _analyze_market_opportunities on its own
AnalyzerBidEntries ==
    BidEntries \cup
    { [rate |-> 500, amount |-> 2500], [rate |-> 40, amount |-> 5000],
      [rate |-> 80, amount |-> 20000] }
AnalyzerBidLists == UNION {[1..n -> AnalyzerBidEntries] : n \in 0..MaxBids}
AnalyzerMarkets ==
    { m \in [bids : AnalyzerBidLists, has_avg_rate : BOOLEAN,
             avg_rate : {0, 80}] :
        ~m.has_avg_rate => m.avg_rate = 0 }

InitAnalyzer ==
    /\ available_balance = 0
    /\ market_data \in AnalyzerMarkets
    /\ offers = <<>>
    /\ path = "none"
    /\ analysis = NoAnalysis
    /\ alloc = NoAllocation
    /\ DualInit0
    /\ SettleInit0
    /\ CycleInit0
    /\ StratInit0
    /\ OrderInit0
    /\ LadderInit0

\* a call of _analyze_market_opportunities(market_data)
AnalyzeMarket ==
    /\ analysis' = AnalysisOf(market_data)
    /\ UNCHANGED <<available_balance, market_data, offers, path, alloc,
                   dualVars, settleVars, cycleVars, stratVars, orderVars, ladderVars>>

NextAnalyzer == AnalyzeMarket

InitAllocation ==
    /\ available_balance = 0
    /\ market_data = [bids |-> <<>>, has_avg_rate |-> FALSE, avg_rate |-> 0]
    /\ offers = <<>>
    /\ path = "none"
    /\ analysis = NoAnalysis
    /\ alloc \in {StartAllocation(b, os) :
                    b \in AllocationBalances, os \in OpportunityLists}
    /\ DualInit0
    /\ SettleInit0
    /\ CycleInit0
    /\ StratInit0
    /\ OrderInit0
    /\ LadderInit0

NextAllocation == AllocationStep

SpecAllocation == InitAllocation /\ [][NextAllocation]_vars

SpecAnalyzer == InitAnalyzer /\ [][NextAnalyzer]_vars

NextPlanner == GenerateOffers

SpecPlanner == InitPlanner /\ [][NextPlanner]_vars

InitDual ==
    /\ PlannerInit0
    /\ DualInit0
    /\ SettleInit0
    /\ CycleInit0
    /\ StratInit0
    /\ OrderInit0
    /\ LadderInit0

NextDual ==
    \/ WriteOrderData
    \/ ReadAccountStatus
    \/ EnableNewSystemReads
    \/ DisableNewSystemReads
    \/ FullCutoverToNewSystem
    \/ HealthCheck

SpecDual == InitDual /\ [][NextDual]_vars

\* Counter values a long-running coordinator can hold: no more errors than
\* dual writes, no more inconsistencies than checks, no more checks than dual
\* writes; comparison is off only after a cutover, which froze the checks at
\* an accepted inconsistency rate.
CounterSamples == {0, 1, 2, 5, 6, 10, 20, 21, 100}

SampledStats ==
    { st \in [dual_writes : CounterSamples, write_errors : {0},
              comparison_checks : CounterSamples,
              data_inconsistencies : CounterSamples,
              new_system_errors : CounterSamples] :
        /\ st.new_system_errors <= st.dual_writes
        /\ st.comparison_checks <= st.dual_writes
        /\ st.data_inconsistencies <= st.comparison_checks }

InitCutover ==
    /\ PlannerInit0
    /\ SettleInit0
    /\ CycleInit0
    /\ StratInit0
    /\ OrderInit0
    /\ LadderInit0
    /\ enable_new_system_write = TRUE
    /\ enable_new_system_read \in BOOLEAN
    /\ enable_comparison \in BOOLEAN
    /\ stats \in SampledStats
    /\ ~enable_comparison => ~InconsistencyRateTooHigh(stats)
    /\ dw_ret = NoCall
    /\ write_calls = stats.dual_writes + stats.write_errors

NextCutover ==
    \/ FullCutoverToNewSystem
    \/ EnableNewSystemReads
    \/ DisableNewSystemReads

SpecCutover == InitCutover /\ [][NextCutover]_vars

InitSettle ==
    /\ PlannerInit0
    /\ DualInit0
    /\ SettleInit0
    /\ CycleInit0
    /\ StratInit0
    /\ OrderInit0
    /\ LadderInit0

NextSettle ==
    \/ PerformStart
    \/ RetryFailedSettlement
    \/ PerformFinish

SpecSettle == InitSettle /\ [][NextSettle]_vars

InitEarnings ==
    /\ PlannerInit0
    /\ DualInit0
    /\ CycleInit0
    /\ StratInit0
    /\ OrderInit0
    /\ LadderInit0
    /\ daily_earnings = {}
    /\ pc = [t \in Tasks |-> Idle]
    /\ statusWrites = {}
    /\ st_ret = NoReturn
    /\ earnings_call \in
          {[NoEarningsCall EXCEPT !.input = i] : i \in EarningsInputs}

NextEarnings == CalculateAndSaveEarnings

SpecEarnings == InitEarnings /\ [][NextEarnings]_vars

InitCycle ==
    /\ PlannerInit0
    /\ DualInit0
    /\ SettleInit0
    /\ bot \in Bots
    /\ loop_pc = "cancel"
    /\ cycle_balance = 0
    /\ cycle_log = <<>>
    /\ offers_to_place = <<>>
    /\ results = <<>>
    /\ StratInit0
    /\ OrderInit0
    /\ LadderInit0

NextCycle ==
    \/ FB_CancelAllFundingOffers
    \/ FB_GetAvailableBalance
    \/ FB_AnalyzeMarket
    \/ FB_GenerateOffers
    \/ FB_PlaceFundingOffer
    \/ FB_SleepInterval
    \/ SB_CancelAllFundingOffers
    \/ SB_GetWalletBalances
    \/ SB_LadderStrategy
    \/ SB_SubmitFundingOffer
    \/ SB_RunPending

SpecCycle == InitCycle /\ [][NextCycle]_vars

\* the event loop resumes the coroutine and every sleep ends
SpecCycleFair == SpecCycle /\ WF_vars(NextCycle)

InitStrategies ==
    /\ PlannerInit0
    /\ DualInit0
    /\ SettleInit0
    /\ CycleInit0
    /\ strategy \in Strategies
    /\ cfg_min_order_amount \in ConfiguredMinimums
    /\ num_ladders = laddering_ladders
    /\ strat_offers = <<>>
    /\ strat_call = NoStratCall
    /\ OrderInit0
    /\ LadderInit0

NextStrategies ==
    \/ GenerateLaddering
    \/ GenerateAdaptiveLaddering
    \/ GenerateSpreadFiller
    \/ GenerateMarketTaker

SpecStrategies == InitStrategies /\ [][NextStrategies]_vars

InitOrders ==
    /\ PlannerInit0
    /\ DualInit0
    /\ SettleInit0
    /\ CycleInit0
    /\ StratInit0
    /\ OrderInit0
    /\ LadderInit0

NextOrders ==
    \/ SyncOrderStatuses
    \/ ProcessInterestPayments

SpecOrders == InitOrders /\ [][NextOrders]_vars

InitLadder ==
    /\ PlannerInit0
    /\ DualInit0
    /\ SettleInit0
    /\ CycleInit0
    /\ StratInit0
    /\ OrderInit0
    /\ LadderInit0

NextLadder == CallLadderStrategy

SpecLadder == InitLadder /\ [][NextLadder]_vars

(* ---- claims about the allocation planner ---- *)

\* C1: the amounts of the offers generate_offers returns sum to at most the
\* available balance, on every return path.
C1_TotalWithinBalance ==
    path # "none" => SumAmounts(offers) <= ToFloat(available_balance)

\* C2: every offer generate_offers returns has amount >= min_order_amount, and
\* a balance below the minimum yields the empty list.
C2_EveryOfferMeetsMinimum ==
    path # "none" =>
        /\ \A i \in 1..Len(offers) : offers[i].amount >= MinQuanta
        /\ available_balance < min_order_amount => offers = <<>>

\* C2 witness: the fallback split 302 into three offers, each 302 / 3 rounded
\* up to the next quantum and still above the minimum.
C2_Witness ==
    /\ path = "fallback"
    /\ available_balance = 302
    /\ Len(offers) = 3
    /\ \A i \in 1..3 : /\ 3 * offers[i].amount > ToFloat(302)
                        /\ offers[i].amount >= MinQuanta

(* ---- claims about the dual-write coordinator ---- *)

\* C3: every write_order_data call writes the legacy store first, before any
\* write to the new store, and a failed legacy write makes the call return
\* false whatever the new-store write did.
C3_LegacyFirstAndHardFailure ==
    dw_ret.op = "write_order_data" =>
        /\ Len(dw_ret.calls) >= 1
        /\ dw_ret.calls[1] = "legacy"
        /\ \A i \in 1..Len(dw_ret.calls) :
              dw_ret.calls[i] = "new" =>
                  \E j \in 1..(i - 1) : dw_ret.calls[j] = "legacy"
        /\ ~dw_ret.legacy_success => dw_ret.value = FALSE

\* C3 witness: the legacy write failed, the new-store write succeeded, and
\* the call returned false.
C3_Witness ==
    /\ dw_ret.op = "write_order_data"
    /\ ~dw_ret.legacy_success
    /\ dw_ret.new_success
    /\ dw_ret.calls = <<"legacy", "new">>
    /\ dw_ret.value = FALSE

\* C4: when the legacy write succeeds write_order_data returns true even if
\* the new-store write failed, and new_system_errors grows by exactly one
\* for a failed new-store write and not at all otherwise.
C4_NewStoreBestEffort ==
    [][dw_ret'.op = "write_order_data" =>
        LET new_failed ==
                /\ \E i \in 1..Len(dw_ret'.calls) : dw_ret'.calls[i] = "new"
                /\ ~dw_ret'.new_success
        IN  /\ dw_ret'.legacy_success => dw_ret'.value = TRUE
            /\ new_failed =>
                  stats'.new_system_errors = stats.new_system_errors + 1
            /\ ~new_failed =>
                  stats'.new_system_errors = stats.new_system_errors]_vars

\* C4 witness: the legacy write succeeded, the new-store write failed, the
\* call returned true and the failure was counted.
C4_Witness ==
    /\ dw_ret.op = "write_order_data"
    /\ dw_ret.legacy_success
    /\ ~dw_ret.new_success
    /\ dw_ret.value = TRUE
    /\ stats.new_system_errors = 1
    /\ stats.dual_writes = 1

\* C5: reads are served by the legacy aggregation while
\* enable_new_system_read is false (its initial value) and by the new system
\* while it is true; a new-system read that raises is answered from the
\* legacy aggregation in the same call; no read raises or changes the flag.
C5_ReadNeverRaises ==
    /\ enable_new_system_read = FALSE
    /\ [][dw_ret'.op = "read_account_status" =>
            /\ ~dw_ret'.raised
            /\ enable_new_system_read' = enable_new_system_read
            /\ ~enable_new_system_read =>
                  /\ dw_ret'.calls = <<"legacy">>
                  /\ dw_ret'.status.source \in {"legacy_system", "default"}
            /\ (enable_new_system_read /\ dw_ret'.new_success) =>
                  /\ dw_ret'.calls = <<"new">>
                  /\ dw_ret'.status.source = "new_system"
            /\ (enable_new_system_read /\ ~dw_ret'.new_success) =>
                  /\ dw_ret'.calls = <<"new", "legacy">>
                  /\ dw_ret'.status.source \in {"legacy_system", "default"}
       ]_vars

\* C5 witness: reads were enabled, the new system raised, and the call
\* returned the legacy aggregation.
C5_Witness ==
    /\ dw_ret.op = "read_account_status"
    /\ enable_new_system_read
    /\ dw_ret.calls = <<"new", "legacy">>
    /\ ~dw_ret.new_success
    /\ dw_ret.status.source = "legacy_system"
    /\ ~dw_ret.raised

\* the two rates of the cutover decision, each taken as 0 without a sample
C6_RateAboveThreshold(st) ==
    \/ /\ st.dual_writes > 0
       /\ st.new_system_errors * 100 > 5 * st.dual_writes
    \/ /\ st.comparison_checks > 0
       /\ st.data_inconsistencies * 100 > 10 * st.comparison_checks

\* C6: full_cutover_to_new_system returns false and changes no flag and no
\* counter when the error rate exceeds 5% or the inconsistency rate exceeds
\* 10%; otherwise it enables new-system reads, disables comparison and
\* returns true.
C6_CutoverDecision ==
    [][dw_ret'.op = "full_cutover_to_new_system" =>
        IF C6_RateAboveThreshold(stats)
        THEN /\ dw_ret'.value = FALSE
             /\ UNCHANGED <<enable_new_system_read, enable_comparison,
                            enable_new_system_write, stats>>
        ELSE /\ dw_ret'.value = TRUE
             /\ enable_new_system_read' = TRUE
             /\ enable_comparison' = FALSE
             /\ UNCHANGED <<enable_new_system_write, stats>>]_vars

\* C6 witness: the spec's example (100 dual writes, 6 errors, 20 checks, 1
\* inconsistency) refused, with new-system reads still disabled.
C6_Witness ==
    /\ dw_ret.op = "full_cutover_to_new_system"
    /\ dw_ret.value = FALSE
    /\ stats.dual_writes = 100
    /\ stats.new_system_errors = 6
    /\ stats.comparison_checks = 20
    /\ stats.data_inconsistencies = 1
    /\ enable_new_system_read = FALSE
    /\ enable_comparison = TRUE

(* ---- claims about the daily settlement ---- *)

\* the status changes the settlement state machine names
C7_Transitions ==
    {<<"PENDING", "IN_PROGRESS">>, <<"IN_PROGRESS", "COMPLETED">>,
     <<"IN_PROGRESS", "FAILED">>, <<"FAILED", "IN_PROGRESS">>}

\* C7: every change of a stored row's settlement status is PENDING to
\* IN_PROGRESS, IN_PROGRESS to COMPLETED, IN_PROGRESS to FAILED or FAILED to
\* IN_PROGRESS; none goes from IN_PROGRESS to PENDING and none leaves
\* COMPLETED.  (The creation of a row, from no row to PENDING, is not a
\* change of a stored status and is left out.)
C7_OnlyStateMachineTransitions ==
    \A w \in statusWrites : w[1] # "NONE" => w \in C7_Transitions

\* the run that just returned could not collect one of its inputs: the
\* interest coroutine, the wallet call or the funding book call raised
C8_InputCallFailed ==
    \/ st_ret.interest \in {"api_error", "other_error"}
    \/ st_ret.wallet = "raises"
    \/ st_ret.market = "raises"

\* C8: when a call that collects an input of perform_daily_settlement fails
\* (and the store itself works and holds the row), the run returns
\* success=false with an error message, the row is FAILED and no COMPLETED
\* status was written.
C8_CollectionFailureMarksFailed ==
    (/\ st_ret.op = "perform_daily_settlement"
     /\ C8_InputCallFailed
     /\ ~st_ret.store_fault
     /\ RowsOf(daily_earnings, st_ret.key) # {})
    => /\ ~st_ret.success
       /\ st_ret.error # ""
       /\ StoredStatus(daily_earnings, st_ret.key) = "FAILED"
       /\ \A w \in statusWrites : w[2] # "COMPLETED"

\* C9: retry_failed_settlement starts a run only when the stored status is
\* FAILED; a call that meets any other status (or none) returns success=false
\* with the "cannot retry" message and changes neither the table nor any
\* task's position.
C9_RetryOnlyFromFailed ==
    [][/\ (pc["operator"] = Idle /\ pc'["operator"].at = "gather")
          => StoredStatus(daily_earnings, pc'["operator"].key) = "FAILED"
       /\ st_ret'.op = "retry_failed_settlement"
          => /\ ~st_ret'.success
             /\ st_ret'.error = "cannot retry"
             /\ st_ret'.seen # "FAILED"
             /\ ~st_ret'.store_fault
                => st_ret'.seen = StoredStatus(daily_earnings, st_ret'.key)
             /\ UNCHANGED <<daily_earnings, pc>>
             /\ statusWrites' = {}]_vars

\* a retry on a COMPLETED row was refused and the row is still COMPLETED
C9_Witness ==
    /\ st_ret.op = "retry_failed_settlement"
    /\ ~st_ret.success
    /\ st_ret.seen = "COMPLETED"
    /\ StoredStatus(daily_earnings, st_ret.key) = "COMPLETED"

\* the metrics that the inputs of the run that just returned yield
C10_MetricsOfInputs ==
    CalculateDailyEarnings(
        CollectSettlementData(st_ret.interest, st_ret.wallet, st_ret.market))

\* C10: a run of perform_daily_settlement whose collection and store calls
\* succeed leaves exactly one row for its key, COMPLETED, whose metrics are
\* those its inputs yield, whatever the row held before and whatever status
\* the run met on entry (COMPLETED included); so runs with identical inputs
\* all leave the one row the first of them wrote.
C10_RepeatedRunsIdempotent ==
    (/\ st_ret.op = "perform_daily_settlement"
     /\ st_ret.success
     /\ ~st_ret.store_fault)
    => /\ Cardinality(RowsOf(daily_earnings, st_ret.key)) = 1
       /\ \A r \in RowsOf(daily_earnings, st_ret.key) :
             /\ r.settlement_status = "COMPLETED"
             /\ r.m = C10_MetricsOfInputs

\* a run entered on a row that was already COMPLETED has returned success
\* and the table holds the one COMPLETED row with the metrics of its inputs
C10_Witness ==
    /\ st_ret.op = "perform_daily_settlement"
    /\ st_ret.success
    /\ ~st_ret.store_fault
    /\ st_ret.seen = "COMPLETED"
    /\ daily_earnings =
          {[key |-> st_ret.key, settlement_status |-> "COMPLETED",
            m |-> C10_MetricsOfInputs]}

(* ---- claims about the allocation cycle ---- *)

\* the position of the first occurrence of a step in the log of the current
\* cycle, 0 when it has not happened
C11_Pos(e) ==
    IF \E i \in 1..Len(cycle_log) : cycle_log[i] = e
    THEN CHOOSE i \in 1..Len(cycle_log) :
            /\ cycle_log[i] = e
            /\ \A j \in 1..(i - 1) : cycle_log[j] # e
    ELSE 0

\* C11: in every cycle the cancellation has returned before the balance is
\* read and the balance has been read before the strategy generates offers;
\* a cycle whose cancellation or balance read raised generates and places
\* nothing.
C11_StepsSequential ==
    /\ (C11_Pos("balance_read") > 0 \/ C11_Pos("balance_raised") > 0)
       => cycle_log[1] = "cancel_returned"
    /\ (C11_Pos("generated") > 0 \/ C11_Pos("generate_raised") > 0)
       => /\ 0 < C11_Pos("cancel_returned")
          /\ C11_Pos("cancel_returned") < C11_Pos("balance_read")
          /\ C11_Pos("generated") > 0
             => C11_Pos("balance_read") < C11_Pos("generated")
    /\ (C11_Pos("cancel_raised") > 0 \/ C11_Pos("balance_raised") > 0)
       => /\ C11_Pos("generated") = 0
          /\ offers_to_place = <<>>
          /\ results = <<>>
    /\ (offers_to_place # <<>> \/ results # <<>>) => C11_Pos("generated") > 0

\* FundingBot has cancelled, read the balance, read the market, generated
\* offers, in this order, and submitted one
C11_Witness ==
    /\ bot = "FundingBot"
    /\ cycle_log =
          <<"cancel_returned", "balance_read", "market_read", "generated">>
    /\ \E i \in 1..Len(results) : results[i] = "submitted"

\* a step of the current cycle raised
C12_RaisedInCycle ==
    \E e \in {"cancel_raised", "balance_raised", "market_raised",
              "insufficient_raised", "generate_raised"} : C11_Pos(e) > 0

\* C12: the scheduling loop never ends, and after a step of a cycle raised
\* (the insufficient-balance error included) or an offer's placement raised,
\* the next cycle starts.
C12_ErrorsNeverStopLoop ==
    /\ [](loop_pc # "stopped")
    /\ (C12_RaisedInCycle ~> (loop_pc = "cancel" /\ cycle_log = <<>>))
    /\ ((\E i \in 1..Len(results) : results[i] = "raised")
        ~> (loop_pc = "cancel" /\ cycle_log = <<>>))

\* the insufficient-balance error has been caught and the loop is in its
\* finally block, about to sleep
C12_Witness ==
    /\ bot = "FundingBot"
    /\ loop_pc = "finally"
    /\ cycle_log[Len(cycle_log)] = "insufficient_raised"

\* C13: when the placement loop of a cycle is over, every offer of the plan
\* has been handled; an offer was dropped without submission exactly when it
\* fails validation, so every valid offer, before and after a failing one,
\* was passed to the exchange.
C13_OnlyOffendingOfferDropped ==
    (bot = "FundingBot" /\ loop_pc = "finally" /\ C11_Pos("generated") > 0)
    => /\ Len(results) = Len(offers_to_place)
       /\ \A i \in 1..Len(results) :
             /\ results[i] = "invalid" <=> ~ValidOffer(offers_to_place[i])
             /\ ValidOffer(offers_to_place[i])
                => results[i] \in {"submitted", "raised"}

\* a plan of three whose second offer was dropped (invalid, or its
\* submission raised) and whose first and third offers were submitted
C13_Witness ==
    /\ bot = "FundingBot"
    /\ loop_pc = "finally"
    /\ Len(offers_to_place) = 3
    /\ \E r \in {"invalid", "raised"} : results = <<"submitted", r, "submitted">>

(* ---- claims about the ladder, spread-filler and market-taker strategies *)

\* C14: every offer that the ladder, adaptive-ladder, spread-filler or
\* market-taker strategy returns has amount >= the configured
\* min_order_amount (the slice count is reduced, or nothing is returned,
\* when a slice would be smaller).
C14_EveryOfferMeetsConfiguredMinimum ==
    \A i \in 1..Len(strat_offers) :
        strat_offers[i].amount >= cfg_min_order_amount * StratScale

\* C15: after each dual write performed while comparison is enabled exactly
\* one consistency check runs: comparison_checks grows by one, and
\* data_inconsistencies grows by one if and only if the utilization rates of
\* the new system and of the legacy system differ by more than 5 percentage
\* points in absolute value (and stays as it was otherwise).
C15_OneCheckPerDualWrite ==
    [][(dw_ret'.op = "write_order_data" /\ enable_comparison
            /\ stats'.dual_writes = stats.dual_writes + 1) =>
        LET differ ==
                /\ dw_ret'.new_rate # -1
                /\ AbsDiff(dw_ret'.new_rate, dw_ret'.legacy_rate) > 5
        IN  /\ stats'.comparison_checks = stats.comparison_checks + 1
            /\ stats'.data_inconsistencies =
                  stats.data_inconsistencies + (IF differ THEN 1 ELSE 0)
       ]_vars

C17_FillProbabilityInRange ==
    (analysis.called /\ analysis.valid > 0) =>
        LET fill == analysis.estimate.fill_probability
            risk == 1000 - fill
        IN  /\ analysis.estimate.raised = "none"
            /\ analysis.raised = "none"
            /\ fill >= 100 /\ fill <= 950
            /\ risk >= 50 /\ risk <= 900
            /\ analysis.avg_rate = 0 => fill = 100

\* C19: the analyzer treats an empty order book, and a book whose entries
\* all have zero rate or zero volume, as a normal case: the entries are
\* skipped, the result is the empty opportunity list and no error is raised;
\* a non-empty result is sorted by expected_return, descending.
C19_EmptyBookIsNotAnError ==
    analysis.called =>
        /\ analysis.valid = 0 =>
              /\ analysis.raised = "none"
              /\ analysis.opportunities = <<>>
        /\ \A i \in 1..(Len(analysis.opportunities) - 1) :
              analysis.opportunities[i].expected_return
                  >= analysis.opportunities[i + 1].expected_return

\* the amounts of the ACTIVE positions among the first n, added up
RECURSIVE C18_ActiveTotal(_, _)
C18_ActiveTotal(ps, n) ==
    IF n = 0 THEN 0
    ELSE C18_ActiveTotal(ps, n - 1)
         + (IF ps[n].status = "ACTIVE" THEN ps[n].amount ELSE 0)

\* q is the quotient num / den rounded to the nearest unit
C18_IsQuotient(q, num, den) ==
    LET d == q * den - num
    IN  2 * (IF d >= 0 THEN d ELSE -d) <= den

\* C18: the stored aggregate of a settled (date, currency) has
\* utilization_rate = deployed / (deployed + available) * 100 (0 when that
\* total is 0), daily_return_rate = total_interest / deployed (0 when
\* deployed is 0) and annualized_return = daily_return_rate * 365 * 100, with
\* deployed the sum of the amounts of the ACTIVE positions; deployed 3000,
\* available 2000 and interest 0.8 give 60.0, about 0.0002667 and about 9.73.
C18_StoredAggregateFormulas ==
    earnings_call.called =>
        \A r \in daily_earnings :
            LET m == r.m
                input == earnings_call.input
                deployed ==
                    C18_ActiveTotal(input.positions, Len(input.positions))
                total == m.deployed_amount + m.available_amount
            IN  /\ m.deployed_amount = deployed
                /\ m.total_interest = input.exchange_daily_interest
                /\ m.available_amount =
                      input.exchange_wallet_balances.available
                /\ IF total > 0
                   THEN C18_IsQuotient(m.utilization_rate,
                                       m.deployed_amount * 10000, total)
                   ELSE m.utilization_rate = 0
                /\ IF m.deployed_amount > 0
                   THEN C18_IsQuotient(m.daily_return_rate,
                                       m.total_interest * ReturnScale,
                                       m.deployed_amount)
                   ELSE m.daily_return_rate = 0
                /\ m.annualized_return = m.daily_return_rate * 365 * 100
                /\ (m.deployed_amount = 30000 /\ m.available_amount = 20000
                        /\ m.total_interest = 8) =>
                      /\ m.utilization_rate = 6000
                      /\ m.daily_return_rate = 2667
                      /\ m.annualized_return >= 97250000
                      /\ m.annualized_return < 97350000

\* C18 witness: the example is stored: two ACTIVE positions of 1000 and
\* 2000, 2000 available, interest 0.8, utilization 60.00.
C18_Witness ==
    /\ earnings_call.called
    /\ Len(earnings_call.input.positions) = 2
    /\ \E r \in daily_earnings :
          /\ r.m.deployed_amount = 30000
          /\ r.m.available_amount = 20000
          /\ r.m.total_interest = 8
          /\ r.m.utilization_rate = 6000

\* C20: if the remote call for the exchange-reported interest fails, the
\* settlement takes the sum of the local ledger records of the date as
\* total_interest and completes; the remote failure alone does not make the
\* settlement FAILED.
C20_RemoteFailureFallsBackToLocal ==
    (/\ st_ret.op = "perform_daily_settlement"
     /\ st_ret.interest = "api_error"
     /\ st_ret.wallet = "funding_wallet"
     /\ st_ret.market = "bids"
     /\ ~st_ret.store_fault) =>
        /\ st_ret.success
        /\ StoredStatus(daily_earnings, st_ret.key) # "FAILED"
        /\ \A r \in RowsOf(daily_earnings, st_ret.key) :
              r.m.total_interest = LocalPayments[1] + LocalPayments[2]

\* C21, as stated: at every step of the allocation loop, for a remaining
\* amount >= min_order_amount, the computed order size is at least
\* min_order_amount, at most remaining * max_single_order_ratio and at most
\* the remaining amount (the cap taken to the rounding of the amount grid).
C21_OrderSizeWithinCap ==
    alloc.sized =>
        /\ alloc.optimal_amount >= MinQuanta
        /\ alloc.optimal_amount
              <= DecDiv(alloc.remaining_before * max_single_order_ratio, 100)
        /\ alloc.optimal_amount <= alloc.remaining_before

\* C21, amended: the computed order size is at least min_order_amount and at
\* most the remaining amount; it is at most remaining *
\* max_single_order_ratio (to the rounding of the amount grid) whenever that
\* cap is at least min_order_amount, and it is exactly min_order_amount when
\* the cap is smaller.
C21_OrderSizeFloorBeatsCap ==
    alloc.sized =>
        LET cap == DecDiv(alloc.remaining_before * max_single_order_ratio,
                          100)
        IN  /\ alloc.optimal_amount >= MinQuanta
            /\ alloc.optimal_amount <= alloc.remaining_before
            /\ cap >= MinQuanta => alloc.optimal_amount <= cap
            /\ cap < MinQuanta => alloc.optimal_amount = MinQuanta

\* C21 witness: a step sized an order above the floor, at the cap.
C21_Witness ==
    /\ alloc.sized
    /\ alloc.optimal_amount > MinQuanta
    /\ alloc.optimal_amount
          = DecDiv(alloc.remaining_before * max_single_order_ratio, 100)

\* C22: whenever perform_daily_settlement returns success = true the stored
\* row of that (date, currency) has settlement status COMPLETED at the
\* moment of return, also when a status update of the store failed during
\* the run.
C22_SuccessMeansCompleted ==
    (st_ret.op = "perform_daily_settlement" /\ st_ret.success) =>
        StoredStatus(daily_earnings, st_ret.key) = "COMPLETED"

\* C23: settlement runs are mutually exclusive per (date, currency): at most
\* one run of a key is between its IN_PROGRESS mark and its final
\* COMPLETED/FAILED mark at any time, and no run replaces by FAILED the
\* status of a row that another run has completed.
C23_RunsMutuallyExclusive ==
    /\ \A t1, t2 \in Tasks :
          (t1 # t2 /\ pc[t1].at = "gather" /\ pc[t2].at = "gather") =>
              pc[t1].key # pc[t2].key
    /\ <<"COMPLETED", "FAILED">> \notin statusWrites

\* C24: the ladder strategies keep no state between cycles: a call returns
\* what a freshly constructed strategy returns for the same balance, market
\* data and configuration, whatever calls preceded it; in particular a
\* balance with balance / laddering_ladders at or above the minimum yields
\* laddering_ladders slices also after a cycle with a low balance.
C24_LaddersKeepNoState ==
    /\ (strat_call.called /\ strategy = "laddering") =>
          /\ ~strat_call.raised
          /\ strat_offers =
                LadderingGenerateOffers(strat_call.balance, strat_call.market,
                    laddering_ladders,
                    cfg_min_order_amount * StratScale).offers
    /\ (strat_call.called /\ strategy = "adaptive_laddering") =>
          /\ ~strat_call.raised
          /\ strat_offers =
                AdaptiveGenerateOffers(strat_call.balance, strat_call.market,
                    strat_call.history, laddering_ladders).offers

\* C25: the completed order statuses EXECUTED, CANCELLED and EXPIRED are
\* absorbing: neither sync_order_statuses nor process_interest_payments
\* changes the status of an order that is in one of them.
C25_CompletedStatusesAbsorbing ==
    [][\A o \in OrderIds :
          lending_orders[o] \in CompletedStatuses =>
              lending_orders'[o] = lending_orders[o]]_vars

\* C26 (as stated): when the legacy write of a write_order_data call fails,
\* no new-store write is attempted.
C26_NoNewWriteAfterLegacyFailure ==
    (dw_ret.op = "write_order_data" /\ ~dw_ret.legacy_success) =>
        \A i \in DOMAIN dw_ret.calls : dw_ret.calls[i] # "new"

\* C26 (amended): a failed legacy write does not stop the new-store write:
\* it is attempted, after the legacy write, in every call made while
\* new-system writes are enabled; the failed legacy write makes the call
\* return false and skips the consistency check.
C26_NewWriteAttemptedRegardless ==
    dw_ret.op = "write_order_data" =>
        /\ enable_new_system_write =>
              (Len(dw_ret.calls) >= 2 /\ dw_ret.calls[2] = "new")
        /\ ~dw_ret.legacy_success =>
              (~dw_ret.value /\ \A i \in DOMAIN dw_ret.calls :
                                    dw_ret.calls[i] # "check")

C26_Witness ==
    /\ dw_ret.op = "write_order_data"
    /\ ~dw_ret.legacy_success
    /\ dw_ret.calls = <<"legacy", "new">>
    /\ dw_ret.new_success

\* C27: every write_order_data call increments exactly one of dual_writes
\* and write_errors, so their sum is the number of calls; a call that returns
\* false because the legacy write failed is counted in dual_writes and leaves
\* write_errors alone; write_errors grows only in a call out of whose write
\* steps an exception escaped; no other operation moves the two counters;
\* and data_inconsistencies <= comparison_checks <= dual_writes between
\* calls.
C27_CountersTrackCalls ==
    /\ [](/\ stats.dual_writes + stats.write_errors = write_calls
          /\ stats.data_inconsistencies <= stats.comparison_checks
          /\ stats.comparison_checks <= stats.dual_writes)
    /\ [][/\ write_calls' = write_calls + 1 =>
               /\ \/ /\ stats'.dual_writes = stats.dual_writes + 1
                     /\ stats'.write_errors = stats.write_errors
                  \/ /\ stats'.dual_writes = stats.dual_writes
                     /\ stats'.write_errors = stats.write_errors + 1
               /\ (~dw_ret'.value /\ ~dw_ret'.legacy_success /\ ~dw_ret'.raised)
                     => /\ stats'.dual_writes = stats.dual_writes + 1
                        /\ stats'.write_errors = stats.write_errors
               /\ stats'.write_errors # stats.write_errors => dw_ret'.raised
          /\ write_calls' = write_calls =>
               /\ stats'.dual_writes = stats.dual_writes
               /\ stats'.write_errors = stats.write_errors]_vars

C27_Witness ==
    /\ dw_ret.op = "write_order_data"
    /\ ~dw_ret.value
    /\ ~dw_ret.legacy_success
    /\ write_calls = 2
    /\ stats.dual_writes = 2
    /\ stats.write_errors = 0
    /\ stats.comparison_checks = 1
    /\ stats.data_inconsistencies = 1

\* C28: disable_new_system_reads changes the read flag and nothing else (the
\* comparison flag, the write flag and the counters keep their values);
\* while the read flag is off every read is served by the legacy
\* aggregation, and only enabling reads or a cutover turns it on again; once
\* a successful cutover has disabled the consistency checks they stay
\* disabled, also after the rollback, and comparison_checks and
\* data_inconsistencies never change again.
C28_RollbackTouchesOnlyReadFlag ==
    /\ []((dw_ret.op = "read_account_status" /\ ~enable_new_system_read) =>
              /\ dw_ret.calls = <<"legacy">>
              /\ dw_ret.status.source \in {"legacy_system", "default"})
    /\ [][/\ dw_ret'.op = "disable_new_system_reads" =>
               /\ ~enable_new_system_read'
               /\ enable_comparison' = enable_comparison
               /\ enable_new_system_write' = enable_new_system_write
               /\ stats' = stats
          /\ (~enable_new_system_read /\ enable_new_system_read') =>
               dw_ret'.op \in {"enable_new_system_reads",
                               "full_cutover_to_new_system"}
          /\ ~enable_comparison =>
               /\ ~enable_comparison'
               /\ stats'.comparison_checks = stats.comparison_checks
               /\ stats'.data_inconsistencies =
                     stats.data_inconsistencies]_vars

\* after a successful cutover and a rollback, a write whose legacy write
\* succeeded has been counted and not checked
C28_Witness ==
    /\ ~enable_comparison
    /\ ~enable_new_system_read
    /\ dw_ret.op = "write_order_data"
    /\ dw_ret.legacy_success
    /\ stats.dual_writes = 2
    /\ stats.comparison_checks = 1

\* C29: with dual_writes = 0 and comparison_checks = 0 neither rate test of
\* full_cutover_to_new_system refuses (both rates are taken as 0) and the
\* call succeeds: it returns true and enables the new-system reads.
C29_CutoverWithoutDataSucceeds ==
    (/\ dw_ret.op = "full_cutover_to_new_system"
     /\ stats.dual_writes = 0
     /\ stats.comparison_checks = 0) =>
        /\ ~ErrorRateTooHigh(stats)
        /\ ~InconsistencyRateTooHigh(stats)
        /\ dw_ret.value
        /\ enable_new_system_read

C29_Witness ==
    /\ dw_ret.op = "full_cutover_to_new_system"
    /\ stats.dual_writes = 0
    /\ stats.comparison_checks = 0
    /\ dw_ret.value
    /\ enable_new_system_read
    /\ ~enable_comparison

\* C30: for every available balance the amounts ladder_strategy returns,
\* after their rounding to two decimals, sum to at most the available
\* balance and to at most the configured maximum amount.
C30_RoundedLadderWithinBalance ==
    ladder_call.called =>
        /\ SumAmounts(ladder_call.orders) * 10 <= ladder_call.available
        /\ SumAmounts(ladder_call.orders) <= max_amount * 100

====
